---- MODULE Spec2Model ----
(***************************************************************************)
(* Model of the comment sentiment scoring and aggregation engine of the    *)
(* dashboard (src/app/dashboard/page.tsx).                                  *)
(*                                                                         *)
(* The engine computes with JavaScript numbers, i.e. IEEE-754 binary64     *)
(* values with round-to-nearest-even.  The rounding decides several of the *)
(* properties (sums, idempotence), so numbers are modelled bit-exactly:    *)
(* a finite double is a sign, a 53-bit significand kept in two limbs       *)
(* (hi * 2^27 + lo) and a binary exponent.                                 *)
(***************************************************************************)
EXTENDS Integers, Sequences, FiniteSets, TLC

(***************************************************************************)
(* Part 1.  IEEE-754 binary64 arithmetic (the JS Number type).             *)
(***************************************************************************)

\* Radix of the low limb of a significand.
Limb == 2^27

\* A two-limb unsigned integer hi * 2^27 + lo.
W2(hi, lo) == [hi |-> hi, lo |-> lo]

W2IsZero(a) == a.hi = 0 /\ a.lo = 0

W2Ge(a, b) == a.hi > b.hi \/ (a.hi = b.hi /\ a.lo >= b.lo)

W2Add(a, b) ==
  LET l == a.lo + b.lo
  IN  W2(a.hi + b.hi + (l \div Limb), l % Limb)

\* a - b for a >= b.
W2Sub(a, b) ==
  LET l == a.lo - b.lo
  IN  IF l >= 0 THEN W2(a.hi - b.hi, l)
                ELSE W2(a.hi - b.hi - 1, l + Limb)

W2Shl1(a) ==
  LET l == 2 * a.lo
  IN  W2(2 * a.hi + (l \div Limb), l % Limb)

\* Shift right by d bits; the bits shifted out are or-ed into the lowest bit
\* of the result (the sticky bit of the rounding).
RECURSIVE W2ShrSticky(_, _)
W2ShrSticky(a, d) ==
  IF d = 0 THEN a
  ELSE IF d >= 27
  THEN LET r == W2ShrSticky(W2(a.hi \div Limb, a.hi % Limb), d - 27)
       IN  IF a.lo # 0 /\ r.lo % 2 = 0 THEN W2(r.hi, r.lo + 1) ELSE r
  ELSE LET p  == 2^d
           q  == 2^(27 - d)
           l  == (a.lo \div p) + (a.hi % p) * q
           st == IF a.lo % p # 0 /\ l % 2 = 0 THEN 1 ELSE 0
       IN  W2(a.hi \div p, l + st)

\* A finite double: (-1)^s * (hi * 2^27 + lo) * 2^e, the significand either
\* zero or in [2^52, 2^53).  k is "fin", "inf" or "nan".
Dbl(s, e, m) == [k |-> "fin", s |-> s, e |-> e, hi |-> m.hi, lo |-> m.lo]

Zero == [k |-> "fin", s |-> 0, e |-> 0, hi |-> 0, lo |-> 0]
NaN == [k |-> "nan", s |-> 0, e |-> 0, hi |-> 0, lo |-> 0]
Infinity == [k |-> "inf", s |-> 0, e |-> 0, hi |-> 0, lo |-> 0]
NegInfinity == [k |-> "inf", s |-> 1, e |-> 0, hi |-> 0, lo |-> 0]

IsZero(x) == x.k = "fin" /\ x.hi = 0 /\ x.lo = 0

Mant(x) == W2(x.hi, x.lo)

\* The significand with three extra low bits (guard, round, sticky).
Ext(x) == W2(x.hi * 8 + (x.lo \div 2^24), (x.lo % 2^24) * 8)

\* Shift x left until it lies in [2^55, 2^56); returns the shifted value and
\* the exponent lowered by the number of shifts.  x is not zero.
RECURSIVE NormLoop(_)
NormLoop(st) ==
  IF st.x.hi >= 2^28 THEN st
  ELSE NormLoop([x |-> W2Shl1(st.x), e |-> st.e - 1])

NormLeft(x, e) == NormLoop([x |-> x, e |-> e])

\* Round the value x * 2^e, x in [2^55, 2^56), to the nearest double, ties
\* to the even significand.
RoundPack(s, e, x) ==
  LET rem == x.lo % 8
      l   == (x.lo \div 8) + (x.hi % 8) * 2^24
      h   == x.hi \div 8
      up  == rem > 4 \/ (rem = 4 /\ l % 2 = 1)
      l2  == IF up THEN l + 1 ELSE l
      h2  == h + (l2 \div Limb)
      l3  == l2 % Limb
  IN  IF h2 >= 2^26 THEN Dbl(s, e + 4, W2(2^25, 0))
                    ELSE Dbl(s, e + 3, W2(h2, l3))

\* |a| >= |b| for finite doubles.
MagGe(a, b) ==
  IF IsZero(b) THEN TRUE
  ELSE IF IsZero(a) THEN FALSE
  ELSE a.e > b.e \/ (a.e = b.e /\ W2Ge(Mant(a), Mant(b)))

\* a + b for finite doubles with |a| >= |b| > 0.
AddOrdered(a, b) ==
  LET xa == Ext(a)
      xb == W2ShrSticky(Ext(b), IF a.e - b.e > 60 THEN 60 ELSE a.e - b.e)
  IN  IF a.s = b.s
      THEN LET sm == W2Add(xa, xb)
           IN  IF sm.hi >= 2^29
               THEN RoundPack(a.s, a.e - 3 + 1, W2ShrSticky(sm, 1))
               ELSE RoundPack(a.s, a.e - 3, sm)
      ELSE LET df == W2Sub(xa, xb)
           IN  IF W2IsZero(df) THEN Zero
               ELSE LET n == NormLeft(df, a.e - 3)
                    IN  RoundPack(a.s, n.e, n.x)

\* The JS + operator on numbers; a finite sum stays in the normal range.
FAdd(a, b) ==
  IF a.k = "nan" \/ b.k = "nan" THEN NaN
  ELSE IF a.k = "inf" THEN (IF b.k = "inf" /\ b.s # a.s THEN NaN ELSE a)
  ELSE IF b.k = "inf" THEN b
  ELSE IF IsZero(a) /\ IsZero(b) THEN [Zero EXCEPT !.s = IF a.s = 1 /\ b.s = 1 THEN 1 ELSE 0]
  ELSE IF IsZero(b) THEN a
  ELSE IF IsZero(a) THEN b
  ELSE IF MagGe(a, b) THEN AddOrdered(a, b) ELSE AddOrdered(b, a)

\* Long division by d: st.i quotient bits still to produce, st.r the running
\* remainder (r < 2 d), st.q the quotient so far.  A non-zero final remainder
\* sets the sticky bit.
RECURSIVE DivLoop(_, _)
DivLoop(st, d) ==
  IF st.i = 0
  THEN IF W2IsZero(st.r) \/ st.q.lo % 2 = 1 THEN st.q ELSE W2(st.q.hi, st.q.lo + 1)
  ELSE LET ge == W2Ge(st.r, d)
           r2 == IF ge THEN W2Sub(st.r, d) ELSE st.r
           q2 == W2Shl1(st.q)
       IN  DivLoop([i |-> st.i - 1, r |-> W2Shl1(r2),
                    q |-> IF ge THEN W2(q2.hi, q2.lo + 1) ELSE q2], d)

\* The JS / operator on numbers; a finite quotient stays in the normal range.
FDiv(a, b) ==
  LET s == IF a.s = b.s THEN 0 ELSE 1
  IN  IF a.k = "nan" \/ b.k = "nan" THEN NaN
      ELSE IF a.k = "inf" THEN (IF b.k = "inf" THEN NaN ELSE [Infinity EXCEPT !.s = s])
      ELSE IF b.k = "inf" THEN [Zero EXCEPT !.s = s]
      ELSE IF IsZero(b) THEN (IF IsZero(a) THEN NaN ELSE [Infinity EXCEPT !.s = s])
      ELSE IF IsZero(a) THEN [Zero EXCEPT !.s = s]
      ELSE LET small == ~W2Ge(Mant(a), Mant(b))
               r0    == IF small THEN W2Shl1(Mant(a)) ELSE Mant(a)
               e0    == a.e - b.e - 55 - (IF small THEN 1 ELSE 0)
           IN  RoundPack(s, e0, DivLoop([i |-> 56, r |-> r0, q |-> W2(0, 0)], Mant(b)))

\* The double of a non-negative integer n < 2^31 (exact).
FromInt(n) ==
  IF n = 0 THEN Zero
  ELSE LET nm == NormLeft(W2(n \div Limb, n % Limb), 0)
       IN  RoundPack(0, nm.e, nm.x)

\* Unary minus.
FNeg(x) == IF x.k = "nan" THEN x ELSE [x EXCEPT !.s = 1 - x.s]

\* Math.abs
FAbs(x) == [x EXCEPT !.s = 0]

\* The double a decimal literal n/d denotes (the nearest double to n / d).
Dec(n, d) == FDiv(FromInt(n), FromInt(d))

\* The JS === on numbers.
FEq(a, b) ==
  /\ a.k # "nan" /\ b.k # "nan"
  /\ \/ IsZero(a) /\ IsZero(b)
     \/ a = b

\* The JS > on numbers (finite or infinite).
FGt(a, b) ==
  IF a.k = "nan" \/ b.k = "nan" THEN FALSE
  ELSE IF a.k = "inf" THEN a.s = 0 /\ ~(b.k = "inf" /\ b.s = 0)
  ELSE IF b.k = "inf" THEN b.s = 1
  ELSE IF IsZero(a) /\ IsZero(b) THEN FALSE
  ELSE IF IsZero(a) THEN b.s = 1
  ELSE IF IsZero(b) THEN a.s = 0
  ELSE IF a.s # b.s THEN a.s = 0
  ELSE IF a.s = 0 THEN MagGe(a, b) /\ a # b
  ELSE MagGe(b, a) /\ a # b

\* The JS >= on numbers.
FGe(a, b) == FGt(a, b) \/ FEq(a, b)

One == FromInt(1)

(***************************************************************************)
(* Part 2.  The scoring and aggregation engine.                            *)
(*                                                                         *)
(* A string is the sequence of its UTF-16 code units (what includes and a  *)
(* regular expression without the u flag work on).  A JS value is a double *)
(* (k = "fin", "inf", "nan"), undefined (k = "undefined") or any value     *)
(* that is not a number (k = "other").  An object with emotion keys is a   *)
(* function from the six keys to JS values, a missing key reading as       *)
(* undefined.                                                              *)
(***************************************************************************)

\* The keys of EMOTIONS, in the order of the array.
EMOTIONS == <<"joy", "sadness", "anger", "surprise", "disgust", "fear">>

EmotionKey == {EMOTIONS[i] : i \in 1..Len(EMOTIONS)}

\* The lexicon, every entry as its code units.
EMOTION_LEXICON == [
  joy |-> <<
    <<51339>>, <<49324, 46993>>, <<52572, 44256>>, <<45824, 48149>>,
    <<54665, 48373>>, <<12619, 12619>>, <<12622, 12622>>, <<44415>>,
    <<10084, 65039>>, <<55357, 56845>>, <<47691, 51256>> >>,
  sadness |-> <<
    <<49836, 54532>>, <<50500, 49789>>, <<49549, 49345>>, <<12640>>,
    <<12636>>, <<45576, 47932>>, <<50864, 50872>>, <<54728, 51204>> >>,
  anger |-> <<
    <<54868, 45208>>, <<51676, 51613>>, <<48737, 52824>>, <<50676, 48155>>,
    <<48516, 45432>>, <<52572, 50501>>, <<50669, 44217>>, <<54868, 45228>> >>,
  surprise |-> <<
    <<45440, 46972>>, <<54736>>, <<48120, 52452>>, <<50752>>,
    <<45824, 48149>>, <<52649, 44201>>, <<50612, 47700, 51060, 51669>>,
    <<50669, 45824, 44553>> >>,
  disgust |-> <<
    <<48324, 47196>>, <<49899>>, <<44396, 47548>>, <<45432, 51132>>,
    <<54800, 50724>>, <<50612, 49353>>, <<52492, 49828, 47101>>,
    <<44396, 47532>> >>,
  fear |-> <<
    <<48520, 50504>>, <<47924, 49453>>, <<44145, 51221>>, <<50948, 54744>>,
    <<46504, 47532>>, <<46160, 47157>>, <<44596, 51109>> >> ]

Undefined == [k |-> "undefined", s |-> 0, e |-> 0, hi |-> 0, lo |-> 0]
NotANumber == [k |-> "other", s |-> 0, e |-> 0, hi |-> 0, lo |-> 0]

\* typeof value === "number"
TypeofNumber(v) == v.k \in {"fin", "inf", "nan"}

\* Number.isFinite(value)
NumberIsFinite(v) == v.k = "fin"

\* An optional value: undefined, or the value val.
None == [defined |-> FALSE, val |-> <<>>]
Some(v) == [defined |-> TRUE, val |-> v]

\* Object.values(values).reduce((sum, v) => sum + v, 0), the keys of values
\* being in the order of EMOTIONS; st.i is the number of values already added.
RECURSIVE SumValuesLoop(_, _)
SumValuesLoop(values, st) ==
  IF st.i = Len(EMOTIONS) THEN st.sum
  ELSE SumValuesLoop(values, [i |-> st.i + 1,
                              sum |-> FAdd(st.sum, values[EMOTIONS[st.i + 1]])])

SumValues(values) == SumValuesLoop(values, [i |-> 0, sum |-> Zero])

\* A variant that leaves out the division by the total.
normalizeSentimentNoDivide(values) ==
  LET total == SumValues(values)
  IN  IF FEq(total, Zero)
      THEN LET even == FDiv(FromInt(1), FromInt(Len(EMOTIONS)))
           IN  [key \in EmotionKey |-> even]
      ELSE [key \in EmotionKey |-> values[key]]

\* A variant that divides by the number of categories, not by the total.
normalizeSentimentByLength(values) ==
  LET total == SumValues(values)
  IN  IF FEq(total, Zero)
      THEN LET even == FDiv(FromInt(1), FromInt(Len(EMOTIONS)))
           IN  [key \in EmotionKey |-> even]
      ELSE [key \in EmotionKey |-> FDiv(values[key], FromInt(Len(EMOTIONS)))]

normalizeSentiment(values) ==
  LET total == SumValues(values)
  IN  IF FEq(total, Zero)
      THEN LET even == FDiv(FromInt(1), FromInt(Len(EMOTIONS)))
           IN  [key \in EmotionKey |-> even]
      ELSE [key \in EmotionKey |-> FDiv(values[key], total)]

\* A variant without the Number.isFinite test.
ensureSentimentScoresNoFiniteTest(emotions) ==
  LET filled == [key \in EmotionKey |->
                   LET value == IF emotions.defined THEN emotions.val[key]
                                                    ELSE Undefined
                   IN  IF TypeofNumber(value) THEN value ELSE Zero]
  IN  normalizeSentiment(filled)

\* emotions is optional; emotions?.[key] of an absent object is undefined.
ensureSentimentScores(emotions) ==
  LET filled == [key \in EmotionKey |->
                   LET value == IF emotions.defined THEN emotions.val[key]
                                                    ELSE Undefined
                   IN  IF TypeofNumber(value) /\ NumberIsFinite(value)
                       THEN value ELSE Zero]
  IN  normalizeSentiment(filled)

\* String.prototype.toLowerCase on one code unit; of the code units the
\* model uses only the Latin capitals have a lower-case form.
ToLowerUnit(c) == IF c \in 65..90 THEN c + 32 ELSE c

toLowerCase(text) == [i \in 1..Len(text) |-> ToLowerUnit(text[i])]

\* String.prototype.includes
Includes(text, keyword) ==
  \E i \in 0..(Len(text) - Len(keyword)) :
     \A j \in 1..Len(keyword) : text[i + j] = keyword[j]

\* /[!?]{2,}/.test
TestPunctuation(text) ==
  \E i \in 1..(Len(text) - 1) : text[i] \in {33, 63} /\ text[i + 1] \in {33, 63}

\* /KK+|HH+/.test with K = U+314B (12619) and H = U+314E (12622)
TestLaughter(text) ==
  \E i \in 1..(Len(text) - 1) :
     \/ text[i] = 12619 /\ text[i + 1] = 12619
     \/ text[i] = 12622 /\ text[i + 1] = 12622

\* /HDD|DD/.test with H = U+314E (12622) and D = U+3137 (12599)
TestShock(text) ==
  \/ Includes(text, <<12622, 12599, 12599>>)
  \/ Includes(text, <<12599, 12599>>)

\* /Y+|U+/.test with Y = U+3160 (12640) and U = U+315C (12636)
TestCrying(text) ==
  \E i \in 1..Len(text) : text[i] = 12640 \/ text[i] = 12636

\* The literals of scoreEmotionByKeywords.
Baseline == Dec(2, 100)
KeywordIncrement == Dec(18, 100)
PunctuationBonus == Dec(12, 100)
LaughterBonus == Dec(1, 10)
ShockBonus == Dec(8, 100)
CryingBonus == Dec(1, 10)

\* keywords.forEach: st.i keywords have been looked up in the text, st.score is
\* the score of the category so far.
RECURSIVE ScanKeywordsLoop(_, _, _)
ScanKeywordsLoop(keywords, normalized, st) ==
  IF st.i = Len(keywords) THEN st.score
  ELSE ScanKeywordsLoop(keywords, normalized,
         [i |-> st.i + 1,
          score |-> IF Includes(normalized, keywords[st.i + 1])
                    THEN FAdd(st.score, KeywordIncrement) ELSE st.score])

\* A variant that looks up the first keyword of the category only.
ScanKeywordsFirstOnly(score, keywords, normalized) ==
  IF Includes(normalized, keywords[1]) THEN FAdd(score, KeywordIncrement) ELSE score

\* A variant that counts one match of a category at most.
ScanKeywordsCapped(score, keywords, normalized) ==
  IF \E i \in 1..Len(keywords) : Includes(normalized, keywords[i])
  THEN FAdd(score, KeywordIncrement) ELSE score

ScanKeywords(score, keywords, normalized) ==
  ScanKeywordsLoop(keywords, normalized, [i |-> 0, score |-> score])

\* A variant whose baseline of joy is 0.2.
InitialScoresUneven ==
  [key \in EmotionKey |-> IF key = "joy" THEN Dec(2, 10) ELSE Baseline]

\* A variant without a baseline.
InitialScoresZero == [key \in EmotionKey |-> Zero]

\* The scores object before any keyword is looked up.
InitialScores == [key \in EmotionKey |-> Baseline]

\* A variant whose four heuristics exclude each other (an else-if chain).
RawScoresExclusive(text) ==
  LET normalized == toLowerCase(text)
      lex == [key \in EmotionKey |->
                ScanKeywords(InitialScores[key], EMOTION_LEXICON[key], normalized)]
  IN  IF TestPunctuation(normalized)
      THEN [lex EXCEPT !.surprise = FAdd(@, PunctuationBonus)]
      ELSE IF TestLaughter(normalized)
      THEN [lex EXCEPT !.joy = FAdd(@, LaughterBonus)]
      ELSE IF TestShock(normalized)
      THEN [lex EXCEPT !.surprise = FAdd(@, ShockBonus)]
      ELSE IF TestCrying(normalized)
      THEN [lex EXCEPT !.sadness = FAdd(@, CryingBonus)]
      ELSE lex

\* The scores object of scoreEmotionByKeywords when it is handed to
\* normalizeSentiment: the baselines, the keyword increments and the four
\* heuristic adjustments, in that order.
RawScores(text) ==
  LET normalized == toLowerCase(text)
      lex == [key \in EmotionKey |->
                ScanKeywords(InitialScores[key], EMOTION_LEXICON[key], normalized)]
      s1  == IF TestPunctuation(normalized)
             THEN [lex EXCEPT !.surprise = FAdd(@, PunctuationBonus)] ELSE lex
      s2  == IF TestLaughter(normalized)
             THEN [s1 EXCEPT !.joy = FAdd(@, LaughterBonus)] ELSE s1
      s3  == IF TestShock(normalized)
             THEN [s2 EXCEPT !.surprise = FAdd(@, ShockBonus)] ELSE s2
      s4  == IF TestCrying(normalized)
             THEN [s3 EXCEPT !.sadness = FAdd(@, CryingBonus)] ELSE s3
  IN  s4

scoreEmotionByKeywords(text) == normalizeSentiment(RawScores(text))

\* EMOTIONS.reduce(..., EMOTIONS[0]): prev after the first i elements.
RECURSIVE DominantScan(_, _)
DominantScan(emotions, st) ==
  IF st.i = Len(EMOTIONS) THEN st.prev
  ELSE DominantScan(emotions,
         [i |-> st.i + 1,
          prev |-> IF FGt(emotions[EMOTIONS[st.i + 1]], emotions[st.prev])
                   THEN EMOTIONS[st.i + 1] ELSE st.prev])

\* A variant whose comparison is >=, so that the last maximum wins.
getDominantEmotionLastWins(emotions) ==
  LET best == { i \in 1..Len(EMOTIONS) :
                  \A j \in 1..Len(EMOTIONS) :
                     /\ FGe(emotions[EMOTIONS[i]], emotions[EMOTIONS[j]])
                     /\ j > i => FGt(emotions[EMOTIONS[i]], emotions[EMOTIONS[j]]) }
  IN  EMOTIONS[CHOOSE i \in best : TRUE]

getDominantEmotion(emotions) ==
  DominantScan(emotions, [i |-> 0, prev |-> EMOTIONS[1]])

\* enriched.reduce((sum, comment) => sum + comment.emotions[key], 0); st.i
\* comments have been added.
RECURSIVE SumCategoryLoop(_, _, _)
SumCategoryLoop(enriched, key, st) ==
  IF st.i = Len(enriched) THEN st.sum
  ELSE SumCategoryLoop(enriched, key,
         [i |-> st.i + 1,
          sum |-> FAdd(st.sum, enriched[st.i + 1].emotions[key])])

\* A variant that leaves out the first comment.
SumCategorySkipFirst(enriched, key) ==
  SumCategoryLoop(enriched, key,
                  [i |-> IF Len(enriched) > 0 THEN 1 ELSE 0, sum |-> Zero])

SumCategory(enriched, key) == SumCategoryLoop(enriched, key, [i |-> 0, sum |-> Zero])

\* A variant without the lower limit 1.
MathMaxNone(n) == n

\* Math.max(n, 1)
MathMax1(n) == IF n > 1 THEN n ELSE 1

\* A variant that keeps the last n elements.
SliceLast(list, n) ==
  SubSeq(list, IF Len(list) < n THEN 1 ELSE Len(list) - n + 1, Len(list))

\* Array.prototype.slice(0, n)
SliceFirst(list, n) == SubSeq(list, 1, IF Len(list) < n THEN Len(list) ELSE n)

\* The number of comments returned as topComments.
TopLimit == 30

\* payload.comments ?? []
CommentsOf(payload) ==
  IF payload.comments.defined THEN payload.comments.val ELSE <<>>

\* A variant that scores the text of every comment, attached scores or not.
EnrichCommentFromText(comment) ==
  [comment EXCEPT !.emotions =
     ensureSentimentScores(Some(scoreEmotionByKeywords(comment.text)))]

\* The callback of .map: the comment with its emotions completed, scored
\* from its text when it carries none (comment.emotions ?? ...).
EnrichComment(comment) ==
  [comment EXCEPT !.emotions =
     ensureSentimentScores(
       IF comment.emotions.defined
       THEN comment.emotions
       ELSE Some(scoreEmotionByKeywords(comment.text)))]

\* const enriched = (payload.comments ?? []).map(...)
Enriched(comments) == [i \in 1..Len(comments) |-> EnrichComment(comments[i])]

\* const summary = EMOTIONS.reduce(...): the mean of every category.
Summary(enriched) ==
  [key \in EmotionKey |->
     FDiv(SumCategory(enriched, key), FromInt(MathMax1(Len(enriched))))]

\* The object buildAnalysis returns, given its two constants.
AnalysisResult(payload, enriched, summary) ==
  [videoTitle    |-> payload.videoTitle,
   channelName   |-> payload.channelTitle,
   summary       |-> normalizeSentiment(summary),
   totalComments |-> Len(enriched),
   topComments   |-> SliceFirst(enriched, TopLimit)]

\* payload.comments is optional; every comment has an optional emotions.
\* enriched and summary are computed once and then used, as the constants
\* of the function body are.
buildAnalysis(payload) ==
  CHOOSE result \in
    UNION { { AnalysisResult(payload, enriched, summary) :
                summary \in { Summary(enriched) } } :
            enriched \in { Enriched(CommentsOf(payload)) } } : TRUE

(***************************************************************************)
(* Part 3.  The state: the inputs handed to the engine and its results.    *)
(* The engine is a set of pure functions, so every specification draws an  *)
(* input in its initial state and its actions apply the functions.         *)
(***************************************************************************)

VARIABLES
  text,          \* the argument of scoreEmotionByKeywords
  scores,        \* its result, once called
  emotionsIn,    \* the argument of ensureSentimentScores
  ensured,       \* its result, once called
  ensuredTwice,  \* the result of completing the result again
  dominant,      \* getDominantEmotion of the completed scores, "" before
  payload,       \* the argument of buildAnalysis
  analysis,      \* its result, once called; the analysis state of the dashboard
  calls,         \* how many calls were made, where calls are repeated
  paramUrl,      \* the url parameter of the address bar
  videoUrl,      \* the text of the input field of the dashboard
  loading,       \* the loading state of the dashboard
  error,         \* the error state of the dashboard: a message or none
  page,          \* the page state of the dashboard
  inflight,      \* the target urls of the runs of runAnalysis that await their fetch
  server,        \* the bodies the server has for the urls, each with its analysis
  location,      \* the page the browser shows: "home" or "dashboard"
  submits,       \* how many times a form was submitted
  pending,       \* the url parameter of the navigation router.push has
                 \* started and the browser has not committed yet, or none
  queued,        \* the state updates React has not rendered yet
  effects,       \* the effects of the last render that have not run yet
  urgent,        \* an event handler has rendered and React runs the effects
                 \* that are due before anything else happens
  heap,          \* the objects and arrays the functions are called on
  args,          \* the references of the arguments of the calls
  request,       \* what a call of the route handler POST receives
  response       \* what it answers, once called

engineVars ==
  <<text, scores, emotionsIn, ensured, ensuredTwice, dominant, payload, calls,
    heap, args>>

dashboardVars ==
  <<paramUrl, videoUrl, loading, error, page, inflight, server, location,
    submits, pending, queued, effects, urgent>>

routeVars == <<request, response>>

vars == <<text, heap, args, scores, emotionsIn, ensured, ensuredTwice, dominant,
          payload, analysis, calls, paramUrl, videoUrl, loading, error, page,
          inflight, server, location, submits, pending, queued, effects,
          urgent, request, response>>

\* The longest text, in pieces of Tokens.
MaxTokens == 2

\* The pieces texts are made of: the eleven joy entries, one or two entries of
\* each other lexicon, single glyphs of the heuristics, punctuation and a
\* Latin capital.
Tokens ==
  { EMOTION_LEXICON.joy[i] : i \in 1..Len(EMOTION_LEXICON.joy) }
  \cup { EMOTION_LEXICON.sadness[1], EMOTION_LEXICON.anger[6],
         EMOTION_LEXICON.surprise[2], EMOTION_LEXICON.surprise[8],
         EMOTION_LEXICON.disgust[2], EMOTION_LEXICON.fear[1] }
  \cup { <<12619>>, <<12622>>, <<12599>>, <<12640>>, <<33>>, <<63>>, <<65>> }

RECURSIVE TextsUpTo(_)
TextsUpTo(n) ==
  IF n = 0 THEN { <<>> }
  ELSE LET shorter == TextsUpTo(n - 1)
       IN  shorter \cup { t \o k : t \in shorter, k \in Tokens }

\* The longest run of one glyph in a text of runs.
MaxRun == 2

\* The glyphs of the runs, in the order of the runs: '!', the laughter glyph
\* U+314B, the shock glyph U+3137 and the crying glyph U+3160.
RunGlyphs == <<33, 12619, 12599, 12640>>

RECURSIVE Repeat(_, _)
Repeat(c, n) == IF n = 0 THEN <<>> ELSE <<c>> \o Repeat(c, n - 1)

\* One run of every glyph, of the lengths given (0 for none).
RunText(lengths) ==
  Repeat(RunGlyphs[1], lengths[1]) \o Repeat(RunGlyphs[2], lengths[2])
    \o Repeat(RunGlyphs[3], lengths[3]) \o Repeat(RunGlyphs[4], lengths[4])

\* Texts of runs of the heuristics' glyphs, also with every run twice.
RunTexts ==
  LET once == { RunText(lengths) : lengths \in [1..Len(RunGlyphs) -> 0..MaxRun] }
  IN  once \cup { t \o t : t \in once }

Texts == TextsUpTo(MaxTokens) \cup RunTexts

\* The most keys of an attached scores object that hold one of SpecialValues.
MaxSpecial == 2

\* Values of a key of an attached scores object, next to 0 and a missing key.
SpecialValues ==
  { NotANumber, NaN, Infinity, FNeg(One), Dec(1, 4), One }

\* Attached scores objects: at most MaxSpecial keys hold a special value, the
\* other keys are all missing or all 0.
ScoreObjects ==
  { [key \in EmotionKey |-> IF key \in DOMAIN sp THEN sp[key] ELSE rest] :
      sp \in UNION { [ks -> SpecialValues] :
                       ks \in { k \in SUBSET EmotionKey : Cardinality(k) <= MaxSpecial } },
      rest \in { Undefined, Zero } }

EmotionInputs == { None } \cup { Some(o) : o \in ScoreObjects }

NoPayload == [videoTitle |-> "", channelTitle |-> "", comments |-> None]

\* No arguments are on the heap.
NoArgs == [emotions |-> None, payload |-> 0]

\* The heap is not used.
HeapIdle == heap = <<>> /\ args = NoArgs

\* The dashboard is not mounted.
DashboardIdle ==
  /\ paramUrl = <<>> /\ videoUrl = <<>> /\ loading = FALSE /\ error = None
  /\ page = 0 /\ inflight = <<>> /\ server = {} /\ location = "dashboard"
  /\ submits = 0 /\ pending = None
  /\ queued = [videoUrl |-> None, analysis |-> None, loading |-> None,
               error |-> None, page |-> None]
  /\ effects = {} /\ urgent = FALSE

\* The route handler is not called.
RouteIdle == request = None /\ response = None

Idle ==
  /\ DashboardIdle /\ RouteIdle
  /\ text = <<>>
  /\ scores = None
  /\ emotionsIn = None
  /\ ensured = None
  /\ ensuredTwice = None /\ HeapIdle
  /\ calls = 0
  /\ dominant = ""
  /\ payload = NoPayload
  /\ analysis = None

(***************************************************************************)
(* Scoring one text.                                                       *)
(***************************************************************************)

InitScore ==
  /\ DashboardIdle /\ RouteIdle
  /\ text \in Texts
  /\ scores = None
  /\ emotionsIn = None /\ ensured = None /\ ensuredTwice = None /\ HeapIdle /\ calls = 0
  /\ dominant = "" /\ payload = NoPayload /\ analysis = None

ScoreComment ==
  /\ ~scores.defined
  /\ scores' = Some(scoreEmotionByKeywords(text))
  /\ UNCHANGED <<calls, text, heap, args, emotionsIn, ensured, ensuredTwice, dominant, payload,
                 analysis>>
  /\ UNCHANGED <<dashboardVars, routeVars>>

NextScore == ScoreComment

SpecScore == InitScore /\ [][NextScore]_vars

(***************************************************************************)
(* Completing one attached scores object.                                  *)
(***************************************************************************)

InitComplete ==
  /\ DashboardIdle /\ RouteIdle
  /\ emotionsIn \in EmotionInputs
  /\ ensured = None /\ ensuredTwice = None /\ HeapIdle /\ calls = 0 /\ dominant = ""
  /\ text = <<>> /\ scores = None /\ payload = NoPayload /\ analysis = None

Complete ==
  /\ ~ensured.defined
  /\ ensured' = Some(ensureSentimentScores(emotionsIn))
  /\ UNCHANGED <<calls, text, heap, args, scores, emotionsIn, ensuredTwice, dominant, payload,
                 analysis>>
  /\ UNCHANGED <<dashboardVars, routeVars>>

CompleteAgain ==
  /\ ensured.defined /\ ~ensuredTwice.defined
  /\ ensuredTwice' = Some(ensureSentimentScores(ensured))
  /\ UNCHANGED <<calls, text, heap, args, scores, emotionsIn, ensured, dominant, payload,
                 analysis>>
  /\ UNCHANGED <<dashboardVars, routeVars>>

Dominant ==
  /\ ensured.defined /\ dominant = ""
  /\ dominant' = getDominantEmotion(ensured.val)
  /\ UNCHANGED <<calls, text, heap, args, scores, emotionsIn, ensured, ensuredTwice, payload,
                 analysis>>
  /\ UNCHANGED <<dashboardVars, routeVars>>

NextComplete == Complete \/ CompleteAgain \/ Dominant

SpecComplete == InitComplete /\ [][NextComplete]_vars

(***************************************************************************)
(* Summarising one payload.                                                *)
(***************************************************************************)

\* The number of comments chosen freely at the head of a comment list; the
\* list repeats them in turn.
MaxPrefix == 2

\* Comment lists have 0..MaxShort or TopLimit - 1..MaxComments comments.
MaxShort == 3
MaxComments == 32

\* What a comment can carry: a text to score, or attached scores (complete
\* and adding up to 1, or with a negative and a non-finite value).
CommentKinds == <<
  [text |-> EMOTION_LEXICON.joy[1], emotions |-> None],
  [text |-> <<>>, emotions |-> None],
  [text |-> EMOTION_LEXICON.anger[6],
   emotions |-> Some([key \in EmotionKey |-> IF key = "joy" THEN One ELSE Zero])],
  [text |-> <<>>,
   emotions |-> Some([joy |-> Dec(1, 10), sadness |-> Dec(2, 10),
                      anger |-> Dec(3, 10), surprise |-> Dec(4, 10),
                      disgust |-> Zero, fear |-> Zero])],
  [text |-> <<>>,
   emotions |-> Some([key \in EmotionKey |->
                        IF key \in {"joy", "sadness"} THEN Dec(1, 2) ELSE Zero])],
  [text |-> EMOTION_LEXICON.joy[1],
   emotions |-> Some([joy |-> FNeg(One), sadness |-> FromInt(3), anger |-> NaN,
                      surprise |-> Undefined, disgust |-> Undefined,
                      fear |-> Undefined])] >>

Prefixes ==
  UNION { [1..len -> 1..Len(CommentKinds)] : len \in 1..MaxPrefix }

ListLengths == (0..MaxShort) \cup ((TopLimit - 1)..MaxComments)

\* The list of n comments that repeats the kinds of prefix; the id of a
\* comment is its position.
CommentList(prefix, n) ==
  [i \in 1..n |->
     LET kind == CommentKinds[prefix[((i - 1) % Len(prefix)) + 1]]
     IN  [id |-> i, text |-> kind.text, emotions |-> kind.emotions]]

CommentLists ==
  { <<>> } \cup
  { CommentList(prefix, n) :
      prefix \in Prefixes, n \in { m \in ListLengths : m >= 1 } }

Payloads ==
  { [videoTitle |-> "title", channelTitle |-> "channel", comments |-> c] :
      c \in { None } \cup { Some(list) : list \in CommentLists } }

InitBuild ==
  /\ DashboardIdle /\ RouteIdle
  /\ payload \in Payloads
  /\ analysis = None
  /\ text = <<>> /\ scores = None /\ emotionsIn = None /\ ensured = None
  /\ ensuredTwice = None /\ HeapIdle /\ calls = 0 /\ dominant = ""

Summarize ==
  /\ ~analysis.defined
  /\ analysis' = Some(buildAnalysis(payload))
  /\ UNCHANGED <<calls, text, heap, args, scores, emotionsIn, ensured, ensuredTwice, dominant,
                 payload>>
  /\ UNCHANGED <<dashboardVars, routeVars>>

NextBuild == Summarize

SpecBuild == InitBuild /\ [][NextBuild]_vars

(***************************************************************************)
(* The dashboard page: its React state, the url parameter of the address   *)
(* bar and the runs of runAnalysis whose fetch has not settled.  The       *)
(* state variables hold what the last render has committed.  The updates   *)
(* of a settled promise and of an effect wait in queued for the next       *)
(* render, which renders all that wait; the effects of a render wait in    *)
(* effects until React runs them.  An event handler that sets states is    *)
(* followed at once by a render: the handler and that render are one       *)
(* step, and the effects that are due run in the step after it.            *)
(***************************************************************************)

\* const PAGE_SIZE = 10
PAGE_SIZE == 10

\* The code units String.prototype.trim removes, of those below U+0100.
WhiteSpace == { 9, 10, 11, 12, 13, 32, 160 }

RECURSIVE TrimStart(_)
TrimStart(str) ==
  IF str # <<>> /\ Head(str) \in WhiteSpace THEN TrimStart(Tail(str)) ELSE str

RECURSIVE TrimEnd(_)
TrimEnd(str) ==
  IF str # <<>> /\ str[Len(str)] \in WhiteSpace
  THEN TrimEnd(SubSeq(str, 1, Len(str) - 1)) ELSE str

\* String.prototype.trim
trim(str) == TrimEnd(TrimStart(str))

\* The code units encodeURIComponent leaves as they are: A-Z a-z 0-9 and
\* - _ . ! ~ * ' ( )
Unreserved ==
  (65..90) \cup (97..122) \cup (48..57) \cup { 45, 95, 46, 33, 126, 42, 39, 40, 41 }

\* The upper-case hexadecimal digit of n, as a code unit.
HexDigit(n) == IF n < 10 THEN 48 + n ELSE 55 + n

\* The value of a hexadecimal digit, -1 for another code unit.
HexValue(c) ==
  IF c \in 48..57 THEN c - 48
  ELSE IF c \in 65..70 THEN c - 55
  ELSE IF c \in 97..102 THEN c - 87
  ELSE -1

\* String.prototype.isWellFormed: no surrogate without its partner.
\* encodeURIComponent throws a URIError for a string that is not.
IsWellFormed(str) ==
  \A i \in 1..Len(str) :
     /\ str[i] \in 55296..56319 => i < Len(str) /\ str[i + 1] \in 56320..57343
     /\ str[i] \in 56320..57343 => i > 1 /\ str[i - 1] \in 55296..56319

\* encodeURIComponent for code units below U+0080: one byte each.
RECURSIVE encodeURIComponent(_)
encodeURIComponent(str) ==
  IF str = <<>> THEN <<>>
  ELSE LET c == Head(str)
       IN  (IF c \in Unreserved THEN <<c>>
            ELSE <<37, HexDigit(c \div 16), HexDigit(c % 16)>>)
           \o encodeURIComponent(Tail(str))

\* The value URLSearchParams gives for an encoded parameter value: '+' is a
\* space, %XX the byte XX (below 0x80), anything else itself.
RECURSIVE DecodeParam(_)
DecodeParam(str) ==
  IF str = <<>> THEN <<>>
  ELSE IF Head(str) = 43 THEN <<32>> \o DecodeParam(Tail(str))
  ELSE IF /\ Head(str) = 37 /\ Len(str) >= 3
          /\ HexValue(str[2]) \in 0..7 /\ HexValue(str[3]) >= 0
       THEN <<16 * HexValue(str[2]) + HexValue(str[3])>>
              \o DecodeParam(SubSeq(str, 4, Len(str)))
  ELSE <<Head(str)>> \o DecodeParam(Tail(str))

\* searchParams.get("url") ?? "" after router.push of
\* `/dashboard?url=${encodeURIComponent(trimmed)}`
ParamAfterPush(trimmed) == DecodeParam(encodeURIComponent(trimmed))

\* Math.max and Math.min of two integers.
MathMax(a, b) == IF a > b THEN a ELSE b

MathMin(a, b) == IF a < b THEN a ELSE b

\* Math.ceil(a / b) for a >= 0 and b > 0.
CeilDiv(a, b) == (a + b - 1) \div b

\* Array.prototype.slice(start, end) for 0 <= start <= end.
Slice(list, start, end) ==
  SubSeq(list, start + 1, MathMin(end, Len(list)))

\* const totalPages = useMemo(...)
totalPages(an) ==
  IF ~an.defined THEN 0
  ELSE LET total == MathMin(Len(an.val.topComments), 30)
       IN  MathMax(1, CeilDiv(total, PAGE_SIZE))

\* const highlighted = useMemo(...)
highlighted(an, pg) ==
  IF ~an.defined THEN <<>>
  ELSE LET start == pg * PAGE_SIZE
       IN  Slice(an.val.topComments, start, start + PAGE_SIZE)

\* analysis?.videoTitle, the dependency of the effect that resets the page.
ShownTitle(an) == IF an.defined THEN Some(an.val.videoTitle) ELSE None

\* The most runs of runAnalysis that await their fetch at one time.
MaxInflight == 2

\* The most submissions of a form.
MaxSubmits == 2

\* The urls of the model: "a" and "b".
UrlA == <<97>>
UrlB == <<98>>

\* Values of the url parameter: none, and the two urls.
ParamUrls == { <<>>, UrlA, UrlB }

\* What the user types into the input field: a blank, the two urls, a url
\* between blanks, and a lone surrogate.
InputValues == { <<32>>, UrlA, <<32>> \o UrlA \o <<32>>, UrlB, <<55296>> }

\* The title of the video of a url.
TitleOf(url) == IF url = UrlA THEN "video a" ELSE "video b"

\* The comments of a video as the route returns them: without emotions.
VideoComments(n) ==
  [i \in 1..n |->
     [id |-> i,
      text |-> IF i % 2 = 1 THEN EMOTION_LEXICON.joy[1] ELSE <<>>,
      emotions |-> None]]

\* The bodies the route can answer a url with when it succeeds: the video of
\* "a" has comments for three pages at one time and for one page at another
\* time, the video of "b" has comments for two pages.
ServerData(url) ==
  { [videoTitle |-> TitleOf(url), channelTitle |-> "channel",
     comments |-> Some(VideoComments(n))] :
      n \in IF url = UrlA THEN { 2 * PAGE_SIZE + 1, PAGE_SIZE \div 2 }
                          ELSE { PAGE_SIZE + 1 } }

\* A response body without any field.
NoBody == [error |-> None, details |-> None, data |-> None]

\* The bodies of ServerData for the two urls, each with the result of
\* buildAnalysis for it: the analysis of a body is computed once, when the
\* model starts, and looked up when a fetch settles.
ServerTable ==
  UNION { { [url |-> url, data |-> d, result |-> buildAnalysis(d)] :
              d \in ServerData(url) } :
          url \in { UrlA, UrlB } }

\* buildAnalysis(data), looked up.
Analyzed(data) == (CHOOSE entry \in server : entry.data = data).result

\* How the fetch of "/api/comments" for a url can settle: a response that is
\* ok with data, a response that is not ok with an error and details or with
\* a body that is not JSON, a response that is ok with an error field, and a
\* rejected fetch.
Replies(url) ==
  { [kind |-> "ok", message |-> "",
     body |-> Some([NoBody EXCEPT !.data = Some(entry.data)])] :
      entry \in { e \in server : e.url = url } }
  \cup
  { [kind |-> "notOk", message |-> "",
     body |-> Some([NoBody EXCEPT !.error = Some("comments failed"),
                                  !.details = Some("quota")])],
    [kind |-> "notOk", message |-> "", body |-> None],
    [kind |-> "ok", message |-> "",
     body |-> Some([NoBody EXCEPT !.error = Some("bad url")])],
    [kind |-> "throw", message |-> "Failed to fetch", body |-> None] }

\* A string that is not undefined and not empty.
Truthy(opt) == opt.defined /\ opt.val # ""

\* The message thrown for a response that is not ok and has no error field.
FetchFailedMessage == "could not load the comments"

\* The message thrown when res.json() fails on a response that is ok.
JsonParseMessage == "Unexpected token"

\* What the promise of fetchAndAnalyze settles with for a reply: the
\* analysis, or the message of the error thrown.
fetchAndAnalyze(reply) ==
  IF reply.kind = "throw"
  THEN [ok |-> FALSE, message |-> reply.message, result |-> None]
  ELSE IF reply.kind = "notOk"
  THEN LET err == IF reply.body.defined THEN reply.body.val ELSE NoBody
       IN  [ok |-> FALSE, result |-> None,
            message |-> IF Truthy(err.error)
                        THEN err.error.val \o
                               (IF Truthy(err.details)
                                THEN " (" \o err.details.val \o ")" ELSE "")
                        ELSE FetchFailedMessage]
  ELSE IF ~reply.body.defined
  THEN [ok |-> FALSE, message |-> JsonParseMessage, result |-> None]
  ELSE LET data == reply.body.val
       IN  IF Truthy(data.error)
           THEN [ok |-> FALSE, message |-> data.error.val, result |-> None]
           ELSE [ok |-> TRUE, message |-> "",
                 result |-> Some(Analyzed(data.data.val))]

\* The list without its i-th element.
RemoveAt(list, i) == SubSeq(list, 1, i - 1) \o SubSeq(list, i + 1, Len(list))

\* No state update waits for a render.  An update is the value the state has
\* after the set calls made since the last render; the states that can be
\* null (analysis, error) wait as Some(None).
NoUpdates ==
  [videoUrl |-> None, analysis |-> None, loading |-> None, error |-> None,
   page |-> None]

HasUpdates ==
  \/ queued.videoUrl.defined \/ queued.analysis.defined
  \/ queued.loading.defined \/ queued.error.defined \/ queued.page.defined

\* The value of a state after a render: the update that waited, or the value
\* of the last render.
Rendered(committed, update) ==
  IF update.defined THEN update.val ELSE committed

\* The first render of the page mounted with a url parameter: the states are
\* their initial values (lines 199-208), and the effects of the page have
\* not run yet.
InitDashboard ==
  /\ paramUrl \in ParamUrls
  /\ videoUrl = paramUrl
  /\ analysis = None
  /\ error = None
  /\ page = 0
  /\ loading = FALSE
  /\ inflight = <<>>
  /\ queued = NoUpdates
  /\ effects = {"url", "title"}
  /\ urgent = FALSE
  /\ server = ServerTable
  /\ location = "dashboard"
  /\ submits = 0 /\ pending = None
  /\ RouteIdle
  /\ text = <<>> /\ scores = None /\ emotionsIn = None /\ ensured = None
  /\ ensuredTwice = None /\ HeapIdle /\ calls = 0 /\ dominant = "" /\ payload = NoPayload

\* The updates of runAnalysis up to its await, added to the updates q.
StartRun(q) ==
  [q EXCEPT !.error = Some(None), !.loading = Some(TRUE)]

\* The updates of the effect of the url parameter, added to the updates q.
UrlEffect(q) ==
  IF paramUrl # <<>>
  THEN StartRun([q EXCEPT !.videoUrl = Some(paramUrl), !.page = Some(0)])
  ELSE [q EXCEPT !.videoUrl = Some(paramUrl), !.page = Some(0),
                 !.analysis = Some(None), !.error = Some(None),
                 !.loading = Some(FALSE)]

\* The updates of the effect of the title shown, added to the updates q.
TitleEffect(q) == [q EXCEPT !.page = Some(0)]

\* The updates that wait once the effects that are due have run, in the
\* order of the source: the url effect, then the title effect.
AfterEffects ==
  IF "title" \in effects
  THEN TitleEffect(IF "url" \in effects THEN UrlEffect(queued) ELSE queued)
  ELSE IF "url" \in effects THEN UrlEffect(queued) ELSE queued

\* A render of the updates q changes the title shown, the dependency of the
\* title effect (line 311).
TitleChanges(q) ==
  ShownTitle(Rendered(analysis, q.analysis)) # ShownTitle(analysis)

\* React renders the updates q, all in one render, and commits it.
RenderAll(q) ==
  /\ videoUrl' = Rendered(videoUrl, q.videoUrl)
  /\ analysis' = Rendered(analysis, q.analysis)
  /\ loading' = Rendered(loading, q.loading)
  /\ error' = Rendered(error, q.error)
  /\ page' = Rendered(page, q.page)

\* The end of an event whose handler has set states, q being the updates
\* that wait with those of the handler: React renders them at once.  The
\* effects that were due before the event are still due, with the title
\* effect when the title shown has changed, and run in the next step.
EndOfEvent(q) ==
  /\ RenderAll(q)
  /\ queued' = NoUpdates
  /\ effects' = IF TitleChanges(q) THEN effects \cup {"title"} ELSE effects
  /\ urgent' = (effects # {} \/ TitleChanges(q))

\* React runs the effects of the last render: the url effect, which starts
\* a run for a parameter that is not empty, and the title effect.  Their
\* updates wait for the next render.
FlushEffects ==
  /\ effects # {}
  /\ queued' = AfterEffects
  /\ inflight' = IF "url" \in effects /\ paramUrl # <<>>
                 THEN Append(inflight, paramUrl) ELSE inflight
  /\ effects' = {}
  /\ urgent' = FALSE
  /\ UNCHANGED <<paramUrl, videoUrl, analysis, loading, error, page, server,
                 location, submits, pending>>
  /\ UNCHANGED <<engineVars, routeVars>>

\* React renders the updates that wait, all in one render, and commits it;
\* the title effect is due when the title shown has changed.
Render ==
  /\ effects = {}
  /\ HasUpdates
  /\ RenderAll(queued)
  /\ queued' = NoUpdates
  /\ effects' = IF TitleChanges(queued) THEN {"title"} ELSE {}
  /\ UNCHANGED <<paramUrl, inflight, server, location, submits, pending,
                 urgent>>
  /\ UNCHANGED <<engineVars, routeVars>>

\* The runs that are in flight or about to start: a navigation that is
\* pending and a url effect that is due start one each.
Outstanding ==
  Len(inflight) + (IF pending.defined THEN 1 ELSE 0)
                + (IF "url" \in effects /\ paramUrl # <<>> THEN 1 ELSE 0)

\* The address bar changes (a link, the back button): the page is rendered
\* with the new url parameter, and the url effect is due (its dependency,
\* line 242).  That render changes no state.  A navigation that was pending
\* is replaced.
Navigate ==
  /\ ~urgent
  /\ effects = {}
  /\ ~HasUpdates
  /\ \E url \in ParamUrls \ {paramUrl} :
        /\ url # <<>> => Len(inflight) < MaxInflight
        /\ paramUrl' = url
  /\ effects' = {"url"}
  /\ pending' = None
  /\ UNCHANGED <<videoUrl, analysis, loading, error, page, inflight, queued,
                 urgent, server, location, submits>>
  /\ UNCHANGED <<engineVars, routeVars>>

\* onChange of the input field: setVideoUrl(value).
ChangeInput ==
  /\ ~urgent
  /\ \E value \in InputValues :
        EndOfEvent([queued EXCEPT !.videoUrl = Some(value)])
  /\ UNCHANGED <<paramUrl, inflight, server, location, submits, pending>>
  /\ UNCHANGED <<engineVars, routeVars>>

\* handleAnalyze.  The form submits only while its button is enabled (not
\* loading) and its required input is not empty.  encodeURIComponent throws
\* for a text with a lone surrogate, and the handler ends there.  router.push
\* starts a navigation and returns: the url parameter changes when the
\* navigation is committed.  runAnalysis sets error and loading and starts
\* the fetch.
Submit ==
  /\ ~urgent
  /\ ~loading
  /\ videoUrl # <<>>
  /\ Outstanding < MaxInflight
  /\ submits < MaxSubmits
  /\ submits' = submits + 1
  /\ LET trimmed == trim(videoUrl)
     IN  IF trimmed = <<>>
         THEN UNCHANGED <<videoUrl, analysis, loading, error, page, inflight,
                          pending, queued, effects, urgent>>
         ELSE IF trimmed = paramUrl
         THEN /\ EndOfEvent(StartRun(queued))
              /\ inflight' = Append(inflight, trimmed)
              /\ UNCHANGED pending
         ELSE IF ~IsWellFormed(trimmed)
         THEN UNCHANGED <<videoUrl, analysis, loading, error, page, inflight,
                          pending, queued, effects, urgent>>
         ELSE /\ pending' = Some(ParamAfterPush(trimmed))
              /\ UNCHANGED <<videoUrl, analysis, loading, error, page,
                             inflight, queued, effects, urgent>>
  /\ UNCHANGED <<paramUrl, server, location>>
  /\ UNCHANGED <<engineVars, routeVars>>

\* The navigation of router.push is committed on the dashboard: the page is
\* rendered with the url parameter pushed, and when it has changed the url
\* effect is due.  That render changes no state.
Commit ==
  /\ location = "dashboard"
  /\ ~urgent
  /\ effects = {}
  /\ ~HasUpdates
  /\ pending.defined
  /\ pending' = None
  /\ paramUrl' = pending.val
  /\ effects' = IF pending.val = paramUrl THEN {} ELSE {"url"}
  /\ UNCHANGED <<videoUrl, page, analysis, error, loading, inflight, queued,
                 urgent, server, location, submits>>
  /\ UNCHANGED <<engineVars, routeVars>>

\* A variant whose catch block leaves the analysis on the page.
SettleKeepsAnalysis ==
  /\ ~urgent
  /\ \E i \in 1..Len(inflight) :
       \E reply \in Replies(inflight[i]) :
          /\ queued' = CHOOSE q \in
               { IF out.ok
                 THEN [queued EXCEPT !.analysis = Some(out.result),
                                     !.loading = Some(FALSE)]
                 ELSE [queued EXCEPT !.error = Some(Some(out.message)),
                                     !.loading = Some(FALSE)] :
                 out \in { fetchAndAnalyze(reply) } } : TRUE
          /\ inflight' = RemoveAt(inflight, i)
  /\ UNCHANGED <<paramUrl, videoUrl, analysis, loading, error, page, effects,
                 urgent, server, location, submits, pending>>
  /\ UNCHANGED <<engineVars, routeVars>>

\* The fetch of a run settles, in any order, and runAnalysis goes on after
\* its await (lines 220-227): setAnalysis(result), or setAnalysis(null) and
\* setError(message), then setLoading(false).  Its updates wait for the next
\* render, together with those of a run that settles before it.
Settle ==
  /\ ~urgent
  /\ \E i \in 1..Len(inflight) :
       \E reply \in Replies(inflight[i]) :
          /\ queued' = CHOOSE q \in
               { IF out.ok
                 THEN [queued EXCEPT !.analysis = Some(out.result),
                                     !.loading = Some(FALSE)]
                 ELSE [queued EXCEPT !.analysis = Some(None),
                                     !.error = Some(Some(out.message)),
                                     !.loading = Some(FALSE)] :
                 out \in { fetchAndAnalyze(reply) } } : TRUE
          /\ inflight' = RemoveAt(inflight, i)
  /\ UNCHANGED <<paramUrl, videoUrl, analysis, loading, error, page, effects,
                 urgent, server, location, submits, pending>>
  /\ UNCHANGED <<engineVars, routeVars>>

\* The button of the previous page; the analysis view shows it, enabled
\* unless page is 0.  Its update is a function of the page (line 559): React
\* applies it to the page the updates that wait lead to.
PrevPage ==
  /\ ~urgent
  /\ analysis.defined
  /\ page # 0
  /\ EndOfEvent([queued EXCEPT
        !.page = Some(MathMax(0, Rendered(page, queued.page) - 1))])
  /\ UNCHANGED <<paramUrl, inflight, server, location, submits, pending>>
  /\ UNCHANGED <<engineVars, routeVars>>

\* The button of the next page, enabled unless page >= totalPages - 1; its
\* update is a function of the page (line 570) with the totalPages of the
\* render that showed the button.
NextPage ==
  /\ ~urgent
  /\ analysis.defined
  /\ ~(page >= totalPages(analysis) - 1)
  /\ EndOfEvent([queued EXCEPT
        !.page = Some(MathMin(totalPages(analysis) - 1,
                              Rendered(page, queued.page) + 1))])
  /\ UNCHANGED <<paramUrl, inflight, server, location, submits, pending>>
  /\ UNCHANGED <<engineVars, routeVars>>

NextDashboard ==
  \/ Navigate \/ ChangeInput \/ Submit \/ Commit \/ Settle \/ PrevPage
  \/ NextPage \/ FlushEffects \/ Render

SpecDashboard == InitDashboard /\ [][NextDashboard]_vars

\* The dashboard with a network that answers and a React that works: the
\* fetch of a run that is in flight, at whatever place among the runs,
\* settles at some time, with a response or with an error, and its
\* continuation is not put off for ever by the events of the page; the
\* effects that are due run, and the updates that wait are rendered.
LiveDashboard ==
  /\ SpecDashboard
  /\ \A i \in 1..MaxInflight :
        SF_vars(/\ i <= Len(inflight)
                /\ Settle
                /\ inflight' = RemoveAt(inflight, i))
  /\ WF_vars(FlushEffects)
  /\ WF_vars(Render)

(***************************************************************************)
(* The home page, and the site: the browser starts on the home page, whose *)
(* form leads to the dashboard.  The home page has its own videoUrl and    *)
(* error states; they are held in the variables of the same names, since   *)
(* one page is shown at a time.  The home page has no effect, and its      *)
(* handlers are rendered at the end of their event.                        *)
(***************************************************************************)

\* The message of the home page for a blank url (line 16), in English.
HomeBlankMessage == "enter a YouTube URL"

InitSite ==
  /\ location = "home" /\ submits = 0 /\ pending = None
  /\ videoUrl = <<>> /\ error = None
  /\ paramUrl = <<>> /\ analysis = None /\ loading = FALSE /\ page = 0
  /\ inflight = <<>>
  /\ queued = NoUpdates /\ effects = {} /\ urgent = FALSE
  /\ server = ServerTable
  /\ RouteIdle
  /\ text = <<>> /\ scores = None /\ emotionsIn = None /\ ensured = None
  /\ ensuredTwice = None /\ HeapIdle /\ calls = 0 /\ dominant = "" /\ payload = NoPayload

\* onChange of the input field of the home page.
HomeChangeInput ==
  /\ location = "home"
  /\ \E value \in InputValues \cup { <<>> } : videoUrl' = value
  /\ UNCHANGED <<paramUrl, analysis, loading, error, page, inflight, server,
                 location, submits, pending, queued, effects, urgent>>
  /\ UNCHANGED <<engineVars, routeVars>>

\* A variant that tests the text as typed, not the trimmed text.
HomeSubmitUntrimmedTest ==
  /\ location = "home"
  /\ videoUrl # <<>>
  /\ submits < MaxSubmits
  /\ submits' = submits + 1
  /\ LET trimmed == trim(videoUrl)
     IN  /\ error' = None
         /\ pending' = IF IsWellFormed(trimmed)
                       THEN Some(ParamAfterPush(trimmed)) ELSE pending
  /\ UNCHANGED <<paramUrl, videoUrl, analysis, loading, page, inflight, server,
                 location, queued, effects, urgent>>
  /\ UNCHANGED <<engineVars, routeVars>>

\* handleSubmit of the home page; its form submits only when the required
\* input is not empty.  router.push starts a navigation and returns: the home
\* page is shown until the navigation is committed.
HomeSubmit ==
  /\ location = "home"
  /\ videoUrl # <<>>
  /\ submits < MaxSubmits
  /\ submits' = submits + 1
  /\ LET trimmed == trim(videoUrl)
     IN  IF trimmed = <<>>
         THEN error' = Some(HomeBlankMessage) /\ UNCHANGED pending
         ELSE /\ error' = None
              /\ pending' = IF IsWellFormed(trimmed)
                            THEN Some(ParamAfterPush(trimmed)) ELSE pending
  /\ UNCHANGED <<paramUrl, videoUrl, analysis, loading, page, inflight, server,
                 location, queued, effects, urgent>>
  /\ UNCHANGED <<engineVars, routeVars>>

\* The navigation of the home page is committed: the dashboard is mounted
\* with the url parameter pushed.  Its first render has the initial values
\* of the states (lines 199-208), and its effects are due.
HomeCommit ==
  /\ location = "home"
  /\ pending.defined
  /\ pending' = None
  /\ location' = "dashboard"
  /\ paramUrl' = pending.val
  /\ videoUrl' = pending.val
  /\ analysis' = None
  /\ loading' = FALSE
  /\ error' = None
  /\ page' = 0
  /\ effects' = {"url", "title"}
  /\ UNCHANGED <<inflight, queued, urgent, server, submits>>
  /\ UNCHANGED <<engineVars, routeVars>>

\* What happens on the dashboard, once it is shown.
OnDashboard == location = "dashboard" /\ NextDashboard

NextSite == HomeChangeInput \/ HomeSubmit \/ HomeCommit \/ OnDashboard

SpecSite == InitSite /\ [][NextSite]_vars

(***************************************************************************)
(* Repeated calls.  The three functions are called again and again, in any *)
(* order, on the same arguments.  What a function could write to lives on  *)
(* a heap: a sequence of cells, one for every object and array, a          *)
(* reference being the position of the cell.  The heap holds the values    *)
(* of the module (the array EMOTIONS with its six objects, the object      *)
(* EMOTION_LEXICON with its six arrays) and the arguments (the scores      *)
(* object, the payload with its array of comment records and their scores  *)
(* objects).  A function is run statement by statement: an object or array *)
(* literal, a spread, .map and .slice add a cell, an assignment to a       *)
(* property writes the cell the code names.  A string is a primitive value *)
(* and has no cell: no statement can write to one.  The regular            *)
(* expressions are literals without the g and y flags, so that test keeps  *)
(* no lastIndex; they have no cell either.                                 *)
(***************************************************************************)

MaxCalls == 4

\* A cell: t is its kind, v its properties or, for an array, its elements.
Cell(t, v) == [t |-> t, v |-> v]

\* The position of a key in EMOTIONS.
KeyIndex(key) == CHOOSE i \in 1..Len(EMOTIONS) : EMOTIONS[i] = key

\* The references of EMOTIONS and of EMOTION_LEXICON.
EmotionsRef == 1
LexiconRef == Len(EMOTIONS) + 2

\* The cells of the values of the module (lines 46-67): the array EMOTIONS,
\* its six objects (the functions read their key only), the object
\* EMOTION_LEXICON and its six arrays of keywords.
SharedCells ==
  << Cell("array", [i \in 1..Len(EMOTIONS) |-> EmotionsRef + i]) >>
  \o [i \in 1..Len(EMOTIONS) |-> Cell("emotion", [key |-> EMOTIONS[i]])]
  \o << Cell("lexicon", [key \in EmotionKey |-> LexiconRef + KeyIndex(key)]) >>
  \o [i \in 1..Len(EMOTIONS) |-> Cell("array", EMOTION_LEXICON[EMOTIONS[i]])]

\* A new object or array: its cell is added to the heap, and its reference
\* is the length of the heap after that.
Alloc(h, cell) == Append(h, cell)

\* object[key] = value, object being a reference.
Store(h, ref, key, value) == [h EXCEPT ![ref].v[key] = value]

\* EMOTIONS.length, EMOTIONS[i].key (i counted from 1) and
\* EMOTION_LEXICON[key], read from the heap.
EmotionsLength(h) == Len(h[EmotionsRef].v)
KeyAt(h, i) == h[h[EmotionsRef].v[i]].v.key
KeywordsAt(h, key) == h[h[LexiconRef].v[key]].v

\* The literal {} of a reduce over the keys: every key reads as undefined.
EmptyScores == [key \in EmotionKey |-> Undefined]

\* A run that has made a new object of the given cell and refers to it.
Fresh(h, cell) == [h |-> Alloc(h, cell), r |-> Len(h) + 1, i |-> 0, j |-> 0]

\* One turn of the reduce of normalizeSentiment (lines 85-92):
\* ({ ...acc, [e.key]: x }) is a new object with the properties of acc and
\* the property e.key; st.r refers to acc, values to the argument.
SpreadTurn(values, total, st, key) ==
  [h |-> Alloc(st.h,
           Cell("scores",
                [st.h[st.r].v EXCEPT ![key] =
                   IF FEq(total, Zero)
                   THEN FDiv(FromInt(1), FromInt(EmotionsLength(st.h)))
                   ELSE FDiv(st.h[values].v[key], total)])),
   r |-> Len(st.h) + 1, i |-> st.i + 1, j |-> 0]

RECURSIVE SpreadTurns(_, _, _)
SpreadTurns(values, total, st) ==
  IF st.i = EmotionsLength(st.h) THEN st
  ELSE SpreadTurns(values, total,
                   SpreadTurn(values, total, st, KeyAt(st.h, st.i + 1)))

\* normalizeSentiment(values) run on the heap h, values being a reference:
\* the heap after the call and the reference r it returns.  Object.values
\* makes a new array that is only read.
normalizeSentimentOnHeap(h, values) ==
  SpreadTurns(values, SumValues(h[values].v),
              Fresh(h, Cell("scores", EmptyScores)))

\* normalizeSentiment of the object a run refers to.
NormalizeAfter(st) == normalizeSentimentOnHeap(st.h, st.r)

\* typeof value === "number" && Number.isFinite(value) ? value : 0
NumberOrZero(value) ==
  IF TypeofNumber(value) /\ NumberIsFinite(value) THEN value ELSE Zero

\* One turn of the reduce of ensureSentimentScores (lines 99-104):
\* acc[emotion.key] = ..., st.r referring to acc; emotions is undefined or a
\* reference.
FillTurn(emotions, st, key) ==
  [st EXCEPT !.i = @ + 1,
             !.h = Store(st.h, st.r, key,
                         NumberOrZero(IF emotions.defined
                                     THEN st.h[emotions.val].v[key]
                                     ELSE Undefined))]

RECURSIVE FillTurns(_, _)
FillTurns(emotions, st) ==
  IF st.i = EmotionsLength(st.h) THEN st
  ELSE FillTurns(emotions, FillTurn(emotions, st, KeyAt(st.h, st.i + 1)))

\* ensureSentimentScores(emotions) run on the heap h.
ensureSentimentScoresOnHeap(h, emotions) ==
  NormalizeAfter(FillTurns(emotions, Fresh(h, Cell("scores", EmptyScores))))

\* scores[key] += amount, st.r referring to scores.
AddTo(st, key, amount) ==
  [st EXCEPT !.h = Store(st.h, st.r, key, FAdd(st.h[st.r].v[key], amount))]

\* keywords.forEach (lines 121-125): st.j keywords of the category key have
\* been looked up.
RECURSIVE KeywordTurns(_, _, _)
KeywordTurns(normalized, key, st) ==
  IF st.j = Len(KeywordsAt(st.h, key)) THEN st
  ELSE KeywordTurns(normalized, key,
         IF Includes(normalized, KeywordsAt(st.h, key)[st.j + 1])
         THEN [AddTo(st, key, KeywordIncrement) EXCEPT !.j = @ + 1]
         ELSE [st EXCEPT !.j = @ + 1])

\* EMOTIONS.forEach (lines 119-126): st.i categories are done.
RECURSIVE EmotionTurns(_, _)
EmotionTurns(normalized, st) ==
  IF st.i = EmotionsLength(st.h) THEN st
  ELSE EmotionTurns(normalized,
         [KeywordTurns(normalized, KeyAt(st.h, st.i + 1), st)
            EXCEPT !.i = @ + 1, !.j = 0])

\* One of the four tests of lines 129-143 with its addition.
Adjust(st, test, key, amount) == IF test THEN AddTo(st, key, amount) ELSE st

\* The body of scoreEmotionByKeywords from line 111 on.
ScoreNormalized(h, normalized) ==
  NormalizeAfter(
    Adjust(Adjust(Adjust(Adjust(
      EmotionTurns(normalized, Fresh(h, Cell("scores", InitialScores))),
      TestPunctuation(normalized), "surprise", PunctuationBonus),
      TestLaughter(normalized), "joy", LaughterBonus),
      TestShock(normalized), "surprise", ShockBonus),
      TestCrying(normalized), "sadness", CryingBonus))

\* scoreEmotionByKeywords(text) run on the heap h, str being the text.
scoreEmotionByKeywordsOnHeap(h, str) == ScoreNormalized(h, toLowerCase(str))

\* comment.emotions ?? scoreEmotionByKeywords(comment.text), comment being a
\* reference: the scores object attached, or a new one.
EmotionsOrScored(h, comment) ==
  IF h[comment].v.emotions.defined
  THEN [h |-> h, r |-> h[comment].v.emotions.val, i |-> 0, j |-> 0]
  ELSE scoreEmotionByKeywordsOnHeap(h, h[comment].v.text)

\* ensureSentimentScores of the object a run refers to.
EnsureAfter(st) == ensureSentimentScoresOnHeap(st.h, Some(st.r))

\* A variant that writes the completed emotions into the comment record it
\* was given and returns that record.
SpreadCommentInPlace(comment, st) ==
  [h |-> [st.h EXCEPT ![comment].v.emotions = Some(st.r)],
   r |-> comment, i |-> 0, j |-> 0]

\* ({ ...comment, emotions: ... }) of lines 149-154: a new record with the
\* properties of the comment and the emotions the run st refers to.
SpreadComment(comment, st) ==
  Fresh(st.h, Cell("comment", [st.h[comment].v EXCEPT !.emotions = Some(st.r)]))

\* The callback of .map for the comment at a reference.
EnrichOnHeap(h, comment) ==
  SpreadComment(comment, EnsureAfter(EmotionsOrScored(h, comment)))

\* A turn of .map has run: its result is the next element of the new array.
Collect(st, done) ==
  [h |-> done.h, out |-> Append(st.out, done.r), i |-> st.i + 1]

\* .map over the array at the reference comments: st.i elements are done.
RECURSIVE MapTurns(_, _)
MapTurns(comments, st) ==
  IF st.i = Len(st.h[comments].v) THEN st
  ELSE MapTurns(comments,
                Collect(st, EnrichOnHeap(st.h, st.h[comments].v[st.i + 1])))

\* payload.comments ?? []: the array of the payload, or a new empty array.
CommentsOnHeap(h, ref) ==
  IF h[ref].v.comments.defined
  THEN [h |-> h, r |-> h[ref].v.comments.val, i |-> 0, j |-> 0]
  ELSE Fresh(h, Cell("array", <<>>))

\* The new array .map returns.
Mapped(st) == Fresh(st.h, Cell("array", st.out))

\* const enriched = (payload.comments ?? []).map(...)
EnrichedAfter(st) == Mapped(MapTurns(st.r, [h |-> st.h, out |-> <<>>, i |-> 0]))

\* enriched.reduce((sum, comment) => sum + comment.emotions[key], 0), read
\* from the heap; st.i comments have been added.
RECURSIVE SumCategoryTurns(_, _, _, _)
SumCategoryTurns(h, enriched, key, st) ==
  IF st.i = Len(h[enriched].v) THEN st.sum
  ELSE SumCategoryTurns(h, enriched, key,
         [i |-> st.i + 1,
          sum |-> FAdd(st.sum,
                       h[h[h[enriched].v[st.i + 1]].v.emotions.val].v[key])])

\* One turn of the reduce of lines 156-164: acc[emotion.key] = avg.
SummaryTurn(enriched, st, key) ==
  [st EXCEPT !.i = @ + 1,
             !.h = Store(st.h, st.r, key,
                         FDiv(SumCategoryTurns(st.h, enriched, key,
                                               [i |-> 0, sum |-> Zero]),
                              FromInt(MathMax1(Len(st.h[enriched].v)))))]

RECURSIVE SummaryTurns(_, _)
SummaryTurns(enriched, st) ==
  IF st.i = EmotionsLength(st.h) THEN st
  ELSE SummaryTurns(enriched, SummaryTurn(enriched, st, KeyAt(st.h, st.i + 1)))

\* The new array enriched.slice(0, 30) returns.
Sliced(h, enriched) ==
  Fresh(h, Cell("array", SliceFirst(h[enriched].v, TopLimit)))

\* The object buildAnalysis returns (lines 166-172), its properties in the
\* order of the literal: summary refers to the normalized summary, top to
\* the slice.
ResultOnHeap(ref, enriched, summary, top) ==
  Fresh(top.h,
        Cell("analysis",
             [videoTitle    |-> top.h[ref].v.videoTitle,
              channelName   |-> top.h[ref].v.channelTitle,
              summary       |-> summary,
              totalComments |-> Len(top.h[enriched].v),
              topComments   |-> top.r]))

\* buildAnalysis from line 156 on, enriched being a reference and summary
\* the run that has normalized the summary.
ReturnAfter(ref, enriched, summary) ==
  ResultOnHeap(ref, enriched, summary.r, Sliced(summary.h, enriched))

\* buildAnalysis from line 156 on, st referring to enriched.
SummaryAfter(ref, st) ==
  ReturnAfter(ref, st.r,
              NormalizeAfter(SummaryTurns(st.r,
                                          Fresh(st.h, Cell("scores", EmptyScores)))))

\* buildAnalysis(payload) run on the heap h, payload being a reference.
buildAnalysisOnHeap(h, ref) ==
  SummaryAfter(ref, EnrichedAfter(CommentsOnHeap(h, ref)))

\* The scores object at a reference, as a value.
ReadScores(h, ref) == h[ref].v

\* The completed comment record at a reference, as a value.
ReadComment(h, ref) ==
  [h[ref].v EXCEPT !.emotions = ReadScores(h, h[ref].v.emotions.val)]

\* The analysis at a reference, as a value.
ReadAnalysis(h, ref) ==
  [videoTitle    |-> h[ref].v.videoTitle,
   channelName   |-> h[ref].v.channelName,
   summary       |-> ReadScores(h, h[ref].v.summary),
   totalComments |-> h[ref].v.totalComments,
   topComments   |-> [i \in 1..Len(h[h[ref].v.topComments].v) |->
                        ReadComment(h, h[h[ref].v.topComments].v[i])]]

\* The cells a call has added are dropped when its result has been read:
\* nothing refers to them any more.
Collected(h) == SubSeq(h, 1, Len(heap))

CallTexts ==
  { <<>>, EMOTION_LEXICON.joy[4] \o EMOTION_LEXICON.joy[4],
    RunText(<<2, 2, 2, 1>>) }

CallEmotions ==
  { None } \cup { CommentKinds[k].emotions : k \in { 4, 5, 6 } }

CallPayloads ==
  { [videoTitle |-> "title", channelTitle |-> "channel", comments |-> c] :
      c \in { None, Some(<<>>), Some(CommentList(<<1, 6>>, 2)) }
            \cup { Some(CommentList(<<k>>, 1)) : k \in 1..Len(CommentKinds) } }

\* An optional scores object put on the heap: r is undefined or its
\* reference.
WithScores(h, emotions) ==
  IF emotions.defined
  THEN [h |-> Alloc(h, Cell("scores", emotions.val)), r |-> Some(Len(h) + 1)]
  ELSE [h |-> h, r |-> None]

\* A comment record put on the heap after its scores object.
WithComment(comment, st) ==
  [h |-> Alloc(st.h, Cell("comment", [comment EXCEPT !.emotions = st.r])),
   r |-> Len(st.h) + 1]

\* The comment records of a list put on the heap; st.out are their
\* references.
RECURSIVE WithComments(_, _)
WithComments(comments, st) ==
  IF st.i = Len(comments) THEN st
  ELSE WithComments(comments,
         Collect(st, WithComment(comments[st.i + 1],
                                 WithScores(st.h, comments[st.i + 1].emotions))))

\* The reference of a run, as an optional value.
Referred(st) == [h |-> st.h, r |-> Some(st.r)]

\* An optional array of comment records put on the heap.
WithList(h, comments) ==
  IF comments.defined
  THEN Referred(Mapped(WithComments(comments.val,
                                    [h |-> h, out |-> <<>>, i |-> 0])))
  ELSE [h |-> h, r |-> None]

\* A payload put on the heap after its array.
WithPayload(p, st) ==
  [h |-> Alloc(st.h, Cell("payload", [p EXCEPT !.comments = st.r])),
   r |-> Len(st.h) + 1]

\* The heap of the calls and the references of the arguments: the values of
\* the module, the scores object e and the payload p.
ArgumentsAt(emotions, st) ==
  [heap |-> st.h, args |-> [emotions |-> emotions, payload |-> st.r]]

Arguments(p, st) ==
  ArgumentsAt(st.r, WithPayload(p, WithList(st.h, p.comments)))

InitCalls ==
  /\ DashboardIdle /\ RouteIdle
  /\ text \in CallTexts
  /\ \E e \in CallEmotions, p \in CallPayloads :
        \E a \in { Arguments(p, WithScores(SharedCells, e)) } :
           heap = a.heap /\ args = a.args
  /\ emotionsIn = None /\ payload = NoPayload
  /\ scores = None /\ ensured = None /\ analysis = None
  /\ ensuredTwice = None /\ dominant = "" /\ calls = 0

\* scoreEmotionByKeywords(text)
CallScore ==
  /\ calls < MaxCalls
  /\ \E done \in { scoreEmotionByKeywordsOnHeap(heap, text) } :
        /\ scores' = Some(ReadScores(done.h, done.r))
        /\ heap' = Collected(done.h)
  /\ calls' = calls + 1
  /\ UNCHANGED <<text, args, emotionsIn, ensured, ensuredTwice, dominant,
                 payload, analysis>>
  /\ UNCHANGED <<dashboardVars, routeVars>>

\* ensureSentimentScores(emotions)
CallEnsure ==
  /\ calls < MaxCalls
  /\ \E done \in { ensureSentimentScoresOnHeap(heap, args.emotions) } :
        /\ ensured' = Some(ReadScores(done.h, done.r))
        /\ heap' = Collected(done.h)
  /\ calls' = calls + 1
  /\ UNCHANGED <<text, args, scores, emotionsIn, ensuredTwice, dominant,
                 payload, analysis>>
  /\ UNCHANGED <<dashboardVars, routeVars>>

\* buildAnalysis(payload)
CallBuild ==
  /\ calls < MaxCalls
  /\ \E done \in { buildAnalysisOnHeap(heap, args.payload) } :
        /\ analysis' = Some(ReadAnalysis(done.h, done.r))
        /\ heap' = Collected(done.h)
  /\ calls' = calls + 1
  /\ UNCHANGED <<text, args, scores, emotionsIn, ensured, ensuredTwice,
                 dominant, payload>>
  /\ UNCHANGED <<dashboardVars, routeVars>>

NextCalls == CallScore \/ CallEnsure \/ CallBuild

SpecCalls == InitCalls /\ [][NextCalls]_vars

(***************************************************************************)
(* The route handler POST of /api/comments.  Strings it takes apart (the   *)
(* videoUrl) are sequences of code units; the messages it answers with are *)
(* strings.                                                                *)
(***************************************************************************)

\* String.prototype.startsWith
StartsWith(str, prefix) ==
  Len(str) >= Len(prefix) /\ SubSeq(str, 1, Len(prefix)) = prefix

\* The first position of code unit c in str, 0 when there is none.
IndexOf(str, c) ==
  IF \E i \in 1..Len(str) : str[i] = c
  THEN CHOOSE i \in 1..Len(str) :
         str[i] = c /\ \A j \in 1..(i - 1) : str[j] # c
  ELSE 0

\* String.prototype.split for a separator of one code unit.
RECURSIVE Split(_, _)
Split(str, c) ==
  LET i == IndexOf(str, c)
  IN  IF i = 0 THEN <<str>>
      ELSE <<SubSeq(str, 1, i - 1)>> \o Split(SubSeq(str, i + 1, Len(str)), c)

\* .filter(Boolean) on a list of strings
FilterBoolean(list) == SelectSeq(list, LAMBDA part : part # <<>>)

\* "http", "https://", "http://", "youtu.be", "embed", "shorts", "v"
StrHttp == <<104, 116, 116, 112>>
StrHttpsPrefix == <<104, 116, 116, 112, 115, 58, 47, 47>>
StrHttpPrefix == <<104, 116, 116, 112, 58, 47, 47>>
StrYoutuBe == <<121, 111, 117, 116, 117, 46, 98, 101>>
StrEmbed == <<101, 109, 98, 101, 100>>
StrShorts == <<115, 104, 111, 114, 116, 115>>
StrV == <<118>>

\* The code units of [a-zA-Z0-9_-].
IdUnits == (97..122) \cup (65..90) \cup (48..57) \cup { 95, 45 }

\* The code units a host name is made of here: letters, digits, '-', '.'
\* and '_'.
HostUnits == IdUnits \cup { 46 }

\* The input the URL parser works on: leading and trailing C0 controls and
\* spaces are stripped, then every tab, LF and CR is removed.
RECURSIVE StripStart(_)
StripStart(str) ==
  IF str # <<>> /\ Head(str) <= 32 THEN StripStart(Tail(str)) ELSE str

RECURSIVE StripEnd(_)
StripEnd(str) ==
  IF str # <<>> /\ str[Len(str)] <= 32
  THEN StripEnd(SubSeq(str, 1, Len(str) - 1)) ELSE str

UrlInput(str) ==
  SelectSeq(StripEnd(StripStart(str)), LAMBDA c : c \notin { 9, 10, 13 })

\* The UTF-8 bytes of a code point.
Utf8(cp) ==
  IF cp < 128 THEN <<cp>>
  ELSE IF cp < 2048 THEN <<192 + (cp \div 64), 128 + (cp % 64)>>
  ELSE IF cp < 65536
  THEN <<224 + (cp \div 4096), 128 + ((cp \div 64) % 64), 128 + (cp % 64)>>
  ELSE <<240 + (cp \div 262144), 128 + ((cp \div 4096) % 64),
         128 + ((cp \div 64) % 64), 128 + (cp % 64)>>

\* %XX for each of the bytes.
RECURSIVE PercentBytes(_)
PercentBytes(bytes) ==
  IF bytes = <<>> THEN <<>>
  ELSE <<37, HexDigit(Head(bytes) \div 16), HexDigit(Head(bytes) % 16)>>
         \o PercentBytes(Tail(bytes))

\* The code points the URL parser percent-encodes in a path: the C0
\* controls, everything above U+007E, and space " # < > ? ` { }
PathEncodeSet(cp) ==
  cp < 32 \/ cp > 126 \/ cp \in { 32, 34, 35, 60, 62, 63, 96, 123, 125 }

\* The path as the URL parser keeps it: code points of the set are
\* percent-encoded as UTF-8, a surrogate without its partner as U+FFFD.
RECURSIVE PathEncode(_)
PathEncode(str) ==
  IF str = <<>> THEN <<>>
  ELSE LET c == Head(str)
       IN  IF /\ c \in 55296..56319 /\ Len(str) >= 2
              /\ str[2] \in 56320..57343
           THEN PercentBytes(Utf8(65536 + (c - 55296) * 1024 + (str[2] - 56320)))
                  \o PathEncode(SubSeq(str, 3, Len(str)))
           ELSE IF c \in 55296..57343
           THEN PercentBytes(Utf8(65533)) \o PathEncode(Tail(str))
           ELSE IF PathEncodeSet(c)
           THEN PercentBytes(Utf8(c)) \o PathEncode(Tail(str))
           ELSE <<c>> \o PathEncode(Tail(str))

\* The query as URLSearchParams decodes it after the URL parser has encoded
\* it: a surrogate without its partner has become U+FFFD.
ScalarValues(str) ==
  [i \in 1..Len(str) |->
     IF \/ /\ str[i] \in 55296..56319
           /\ ~(i < Len(str) /\ str[i + 1] \in 56320..57343)
        \/ /\ str[i] \in 56320..57343
           /\ ~(i > 1 /\ str[i - 1] \in 55296..56319)
     THEN 65533 ELSE str[i]]

\* The labels of a host, without the empty one after a last dot.
HostParts(host) ==
  LET labels == Split(host, 46)
  IN  IF Len(labels) > 1 /\ labels[Len(labels)] = <<>>
      THEN SubSeq(labels, 1, Len(labels) - 1) ELSE labels

\* digits, read in radix r, added to the number of four octets num
\* (the highest first); over tells that the number does not fit.
RECURSIVE ReadDigits(_, _, _)
ReadDigits(digits, r, num) ==
  IF digits = <<>> THEN [num EXCEPT !.ok = TRUE]
  ELSE IF ~(HexValue(Head(digits)) \in 0..(r - 1)) THEN [num EXCEPT !.ok = FALSE]
  ELSE LET o  == num.octets
           n4 == o[4] * r + HexValue(Head(digits))
           n3 == o[3] * r + (n4 \div 256)
           n2 == o[2] * r + (n3 \div 256)
           n1 == o[1] * r + (n2 \div 256)
       IN  ReadDigits(Tail(digits), r,
                      [ok     |-> TRUE,
                       octets |-> <<n1 % 256, n2 % 256, n3 % 256, n4 % 256>>,
                       over   |-> num.over \/ n1 >= 256])

\* The IPv4 number parser of the URL standard: hexadecimal after 0x or 0X,
\* octal after another leading 0, decimal otherwise; not ok for an empty
\* input or a digit the radix does not have.
ParseIpv4Number(input) ==
  LET zero == [ok |-> TRUE, octets |-> <<0, 0, 0, 0>>, over |-> FALSE]
  IN  IF input = <<>> THEN [zero EXCEPT !.ok = FALSE]
      ELSE IF Len(input) >= 2 /\ input[1] = 48 /\ input[2] \in { 120, 88 }
      THEN ReadDigits(SubSeq(input, 3, Len(input)), 16, zero)
      ELSE IF Len(input) >= 2 /\ input[1] = 48
      THEN ReadDigits(Tail(input), 8, zero)
      ELSE ReadDigits(input, 10, zero)

\* The host ends in a number: its last label is made of digits or is an
\* IPv4 number.  Such a host is an IPv4 address or no host at all.
EndsInNumber(host) ==
  LET parts == HostParts(host)
      last  == parts[Len(parts)]
  IN  \/ last # <<>> /\ \A i \in 1..Len(last) : last[i] \in 48..57
      \/ ParseIpv4Number(last).ok

\* The IPv4 parser: at most four numbers, all but the last below 256, the
\* last one filling the octets that are left.
Ipv4Of(numbers) ==
  LET size == Len(numbers)
      Small(n) == ~n.over /\ n.octets[1] = 0 /\ n.octets[2] = 0 /\ n.octets[3] = 0
  IN  IF size > 4 \/ \E i \in 1..size : ~numbers[i].ok
      THEN [ok |-> FALSE, octets |-> <<>>]
      ELSE IF \/ \E i \in 1..(size - 1) : ~Small(numbers[i])
              \/ numbers[size].over
              \/ \E k \in 1..(size - 1) : numbers[size].octets[k] # 0
      THEN [ok |-> FALSE, octets |-> <<>>]
      ELSE [ok |-> TRUE,
            octets |-> [k \in 1..4 |-> IF k < size THEN numbers[k].octets[4]
                                       ELSE numbers[size].octets[k]]]

ParseIpv4(host) ==
  CHOOSE address \in
    UNION { { Ipv4Of(numbers) :
                numbers \in { [i \in 1..Len(parts) |->
                                 ParseIpv4Number(parts[i])] } } :
            parts \in { HostParts(host) } } : TRUE

\* The decimal digits of an octet.
Decimal(n) ==
  IF n >= 100
  THEN <<48 + (n \div 100), 48 + ((n \div 10) % 10), 48 + (n % 10)>>
  ELSE IF n >= 10 THEN <<48 + (n \div 10), 48 + (n % 10)>>
  ELSE <<48 + n>>

\* The serialisation of an IPv4 address.
DottedQuad(octets) ==
  Decimal(octets[1]) \o <<46>> \o Decimal(octets[2]) \o <<46>>
    \o Decimal(octets[3]) \o <<46>> \o Decimal(octets[4])

\* Slashes at the start of str are skipped.
RECURSIVE SkipSlashes(_)
SkipSlashes(str) ==
  IF str # <<>> /\ Head(str) = 47 THEN SkipSlashes(Tail(str)) ELSE str

\* The host, the path and the query of an input of the form
\*   ("http" | "https") "://" host [ "/" path ] [ "?" query ]
\* The host is empty for another input.
UrlParts(input) ==
  LET rest == IF StartsWith(input, StrHttpsPrefix)
              THEN SkipSlashes(SubSeq(input, Len(StrHttpsPrefix) + 1, Len(input)))
              ELSE IF StartsWith(input, StrHttpPrefix)
              THEN SkipSlashes(SubSeq(input, Len(StrHttpPrefix) + 1, Len(input)))
              ELSE <<>>
      slash == IndexOf(rest, 47)
      quest == IndexOf(rest, 63)
      hostEnd == IF slash = 0 /\ quest = 0 THEN Len(rest) + 1
                 ELSE IF slash = 0 THEN quest
                 ELSE IF quest = 0 THEN slash
                 ELSE MathMin(slash, quest)
      tail == SubSeq(rest, hostEnd, Len(rest))
      q    == IndexOf(tail, 63)
  IN  [host  |-> toLowerCase(SubSeq(rest, 1, hostEnd - 1)),
       path  |-> IF q = 0 THEN tail ELSE SubSeq(tail, 1, q - 1),
       query |-> IF q = 0 THEN <<>> ELSE SubSeq(tail, q + 1, Len(tail))]

\* The host as the URL parser takes it: not ok when it is empty, has a code
\* unit that is none of the host's, or ends in a number and is no IPv4
\* address; the name itself, or the IPv4 address in its dotted form.
UrlHost(host) ==
  IF host = <<>> \/ \E i \in 1..Len(host) : host[i] \notin HostUnits
  THEN [ok |-> FALSE, hostname |-> host]
  ELSE IF ~EndsInNumber(host)
  THEN [ok |-> TRUE, hostname |-> host]
  ELSE IF ~ParseIpv4(host).ok
  THEN [ok |-> FALSE, hostname |-> host]
  ELSE [ok |-> TRUE, hostname |-> DottedQuad(ParseIpv4(host).octets)]

\* new URL(normalized) for strings of the form
\*   ("http" | "https") "://" host [ "/" path ] [ "?" query ]
\* with a host of letters, digits, '-', '.' and '_' that has no label
\* starting with "xn--", and without port, user, fragment, backslash, '^',
\* dot segment or percent escape in host and path.  ok is FALSE where new URL
\* throws: no such scheme and "//", an empty host, a code unit that is none
\* of the host's, a host that ends in a number and is no IPv4 address.
\* hostname is lower-cased, or the IPv4 address in its dotted form; pathname
\* starts with "/" and is percent-encoded; search is the query without its
\* "?".
ParseUrl(normalized) ==
  CHOOSE parsed \in
    UNION { { [ok       |-> UrlHost(parts.host).ok,
               hostname |-> UrlHost(parts.host).hostname,
               pathname |-> IF parts.path = <<>> THEN <<47>>
                            ELSE PathEncode(parts.path),
               search   |-> ScalarValues(parts.query)] :
                parts \in { UrlParts(input) } } :
            input \in { UrlInput(normalized) } } : TRUE

\* URLSearchParams.get(name): the decoded value of the first pair of that
\* name, none when there is no such pair.
SearchParamsGet(search, name) ==
  LET pairs == FilterBoolean(Split(search, 38))
      Name(pair) == LET eq == IndexOf(pair, 61)
                    IN  DecodeParam(IF eq = 0 THEN pair ELSE SubSeq(pair, 1, eq - 1))
      Value(pair) == LET eq == IndexOf(pair, 61)
                     IN  DecodeParam(IF eq = 0 THEN <<>>
                                     ELSE SubSeq(pair, eq + 1, Len(pair)))
  IN  IF \E i \in 1..Len(pairs) : Name(pairs[i]) = name
      THEN Some(Value(pairs[CHOOSE i \in 1..Len(pairs) :
                              /\ Name(pairs[i]) = name
                              /\ \A j \in 1..(i - 1) : Name(pairs[j]) # name]))
      ELSE None

\* raw.match(/([a-zA-Z0-9_-]{11})/): the first eleven code units of the
\* leftmost run of eleven.
MatchId(raw) ==
  LET Starts == { i \in 1..(Len(raw) - 10) :
                    \A j \in 0..10 : raw[i + j] \in IdUnits }
  IN  IF Starts = {} THEN None
      ELSE LET first == CHOOSE i \in Starts : \A k \in Starts : i <= k
           IN  Some(SubSeq(raw, first, first + 10))

\* A variant that looks for the v parameter before it looks at the host.
extractVideoIdQueryFirst(raw) ==
  LET normalized == IF StartsWith(raw, StrHttp) THEN raw ELSE StrHttpsPrefix \o raw
      parsed == ParseUrl(normalized)
      pathSegments == FilterBoolean(Split(parsed.pathname, 47))
      v == SearchParamsGet(parsed.search, StrV)
  IN  IF parsed.ok /\ v.defined /\ v.val # <<>>
      THEN v
      ELSE IF parsed.ok /\ Includes(parsed.hostname, StrYoutuBe)
      THEN IF Len(pathSegments) >= 1 THEN Some(pathSegments[1]) ELSE None
      ELSE IF parsed.ok /\ Len(pathSegments) >= 2 /\ pathSegments[1] = StrEmbed
      THEN Some(pathSegments[2])
      ELSE IF parsed.ok /\ Len(pathSegments) >= 2 /\ pathSegments[1] = StrShorts
      THEN Some(pathSegments[2])
      ELSE MatchId(raw)

\* extractVideoId: the id, or none for null.
extractVideoId(raw) ==
  LET normalized == IF StartsWith(raw, StrHttp) THEN raw ELSE StrHttpsPrefix \o raw
      parsed == ParseUrl(normalized)
      pathSegments == FilterBoolean(Split(parsed.pathname, 47))
      v == SearchParamsGet(parsed.search, StrV)
  IN  IF parsed.ok /\ Includes(parsed.hostname, StrYoutuBe)
      THEN IF Len(pathSegments) >= 1 THEN Some(pathSegments[1]) ELSE None
      ELSE IF parsed.ok /\ v.defined /\ v.val # <<>>
      THEN v
      ELSE IF parsed.ok /\ Len(pathSegments) >= 2 /\ pathSegments[1] = StrEmbed
      THEN Some(pathSegments[2])
      ELSE IF parsed.ok /\ Len(pathSegments) >= 2 /\ pathSegments[1] = StrShorts
      THEN Some(pathSegments[2])
      ELSE MatchId(raw)

\* The messages of the route, in English: a missing key (line 77), a missing
\* videoUrl (line 85), no video id (line 93), the error of a failed fetch
\* (line 171), and the three friendly details (lines 131-135).
NoKeyMessage == "YOUTUBE_API_KEY is not set"
NoVideoUrlMessage == "videoUrl is required"
InvalidUrlMessage == "not a valid YouTube URL"
RouteFailedMessage == "could not load the YouTube comments"
CommentsDisabledMessage == "the comments of this video are private"
QuotaExceededMessage == "the YouTube API quota is exhausted"
ForbiddenMessage == "no permission to read the comments of this video"

\* snippet?.title ?? ..., snippet?.channelTitle ?? ...
NoTitle == "title unknown"
NoChannel == "channel unknown"

\* The number of comments the route returns.
RouteLimit == 30

\* A response of the route: its status and its JSON body.
RouteResponse(status, body) == [status |-> status, body |-> body]

\* The callback of threads.map: the comment of a thread, none (null) for a
\* thread without thread.snippet?.topLevelComment?.snippet.  author and
\* publishedAt are copied unchanged and left out; the comment carries no
\* emotions.
ThreadComment(thread) ==
  IF ~thread.snippet.defined THEN None
  ELSE Some([id       |-> thread.id,
             text     |-> thread.snippet.val.textOriginal,
             likes    |-> IF thread.snippet.val.likeCount.defined
                          THEN thread.snippet.val.likeCount.val ELSE 0,
             emotions |-> None])

\* threads.map(...).filter(Boolean)
RECURSIVE MappedComments(_, _)
MappedComments(threads, st) ==
  IF st.i > Len(threads) THEN st.kept
  ELSE MappedComments(threads,
         [i    |-> st.i + 1,
          kept |-> IF ThreadComment(threads[st.i]).defined
                   THEN Append(st.kept, ThreadComment(threads[st.i]).val)
                   ELSE st.kept])

\* One step of the sort: comment goes behind every comment of sorted that
\* has at least its likes, so that comments with equal likes keep their
\* order (Array.prototype.sort is stable).
InsertByLikes(sorted, comment) ==
  LET k == Cardinality({ i \in 1..Len(sorted) : sorted[i].likes >= comment.likes })
  IN  SubSeq(sorted, 1, k) \o <<comment>> \o SubSeq(sorted, k + 1, Len(sorted))

\* .sort((a, b) => (b?.likes ?? 0) - (a?.likes ?? 0))
RECURSIVE SortByLikes(_, _)
SortByLikes(list, st) ==
  IF st.i > Len(list) THEN st.sorted
  ELSE SortByLikes(list, [i |-> st.i + 1,
                         sorted |-> InsertByLikes(st.sorted, list[st.i])])

\* A variant that cuts the list before it sorts it.
RouteCommentsCutFirst(threads) ==
  SortByLikes(SliceFirst(MappedComments(threads, [i |-> 1, kept |-> <<>>]),
                         RouteLimit),
              [i |-> 1, sorted |-> <<>>])

\* const comments = threads.map(...).filter(Boolean).sort(...).slice(0, 30)
RouteComments(threads) ==
  SliceFirst(SortByLikes(MappedComments(threads, [i |-> 1, kept |-> <<>>]),
                         [i |-> 1, sorted |-> <<>>]),
             RouteLimit)

\* What fetchVideoMeta throws for a reply of the videos API: its message,
\* none when it returns.
MetaFailure(metaRes) ==
  IF metaRes.kind = "throw" THEN Some(metaRes.message)
  ELSE IF metaRes.kind = "notOk"
  THEN Some("YouTube videos API failed: " \o ToString(metaRes.status) \o " "
              \o metaRes.text)
  ELSE None

\* What fetchVideoMeta returns for a reply that is ok.
fetchVideoMeta(metaRes) ==
  [title   |-> IF metaRes.title.defined THEN metaRes.title.val ELSE NoTitle,
   channel |-> IF metaRes.channel.defined THEN metaRes.channel.val
               ELSE NoChannel]

\* The message thrown for a reply of the commentThreads API that is not ok:
\* the friendly one for a known reason, else the status and the body (the
\* JSON again as a string when the body is JSON, its text when not).
CommentFailure(commentRes) ==
  IF commentRes.json /\ commentRes.reason = Some("commentsDisabled")
  THEN CommentsDisabledMessage
  ELSE IF commentRes.json /\ commentRes.reason = Some("quotaExceeded")
  THEN QuotaExceededMessage
  ELSE IF commentRes.json /\ commentRes.reason = Some("forbidden")
  THEN ForbiddenMessage
  ELSE "YouTube API error: " \o ToString(commentRes.status) \o " "
         \o commentRes.text

\* A variant in which a failure of fetchVideoMeta is not a rejection.
RejectionsOfComments(req) ==
  IF req.commentRes.kind = "throw" THEN { req.commentRes.message } ELSE {}

\* The rejections Promise.all can settle with: that of the fetch of the
\* comment threads and that of fetchVideoMeta; with two of them the one
\* that comes first wins.
Rejections(req) ==
  (IF req.commentRes.kind = "throw" THEN { req.commentRes.message } ELSE {})
  \cup
  (IF MetaFailure(req.metaRes).defined
   THEN { MetaFailure(req.metaRes).val } ELSE {})

\* The response of the catch block for an error of that message.
FailedResponse(message) ==
  RouteResponse(500, [NoBody EXCEPT !.error = Some(RouteFailedMessage),
                                    !.details = Some(message)])

\* What the caller gets when the handler throws outside its try block: a
\* status 500 without a JSON body.
UnhandledResponse == RouteResponse(500, NoBody)

\* The responses POST can give to a request: one, except when two
\* rejections race.  await req.json() rejects for a body that is not JSON,
\* and destructuring the value null throws.
POST(req) ==
  IF ~req.apiKey.defined \/ req.apiKey.val = <<>>
  THEN { RouteResponse(500, [NoBody EXCEPT !.error = Some(NoKeyMessage)]) }
  ELSE IF req.body # "object"
  THEN { UnhandledResponse }
  ELSE IF req.videoUrl.type # "string" \/ req.videoUrl.str = <<>>
  THEN { RouteResponse(400, [NoBody EXCEPT !.error = Some(NoVideoUrlMessage)]) }
  ELSE IF \/ ~extractVideoId(req.videoUrl.str).defined
          \/ extractVideoId(req.videoUrl.str).val = <<>>
  THEN { RouteResponse(400, [NoBody EXCEPT !.error = Some(InvalidUrlMessage)]) }
  ELSE IF Rejections(req) # {}
  THEN { FailedResponse(message) : message \in Rejections(req) }
  ELSE IF req.commentRes.kind = "notOk"
  THEN { FailedResponse(CommentFailure(req.commentRes)) }
  ELSE { RouteResponse(200,
           [NoBody EXCEPT !.data =
              Some([videoTitle   |-> fetchVideoMeta(req.metaRes).title,
                    channelTitle |-> fetchVideoMeta(req.metaRes).channel,
                    comments     |-> Some(RouteComments(
                                       IF req.commentRes.items.defined
                                       THEN req.commentRes.items.val
                                       ELSE <<>>))])]) }

\* The requests the route is given.  A video url is put together from a
\* scheme, a host, a path and a query; VideoId is an id of eleven code
\* units, ShortId one of three.
MaxThreadPrefix == 3
MaxThreads == 32

VideoId == <<100, 81, 119, 52, 119, 57, 87, 103, 88, 99, 81>>
ShortId == <<97, 98, 99>>

UrlSchemes == { <<>>, <<104, 116, 116, 112, 115, 58, 47, 47>>, <<104, 116, 116, 112, 58, 47, 47>> }
UrlHosts == { <<121, 111, 117, 116, 117, 46, 98, 101>>, <<119, 119, 119, 46, 121, 111, 117, 116, 117, 98, 101, 46, 99, 111, 109>>, <<101, 120, 97, 109, 112, 108, 101, 46, 111, 114, 103>> }
UrlPaths ==
  { <<>>, <<47>>, <<47>> \o VideoId, <<47>> \o ShortId, <<47, 119, 97, 116, 99, 104>>,
    <<47>> \o StrEmbed \o <<47>> \o ShortId, <<47>> \o StrEmbed,
    <<47>> \o StrShorts \o <<47>> \o ShortId }
UrlQueries ==
  { <<>>, <<63>> \o StrV \o <<61>> \o ShortId, <<63>> \o StrV \o <<61>>,
    <<63, 116, 61, 49>> \o <<38>> \o StrV \o <<61>> \o VideoId }

\* Urls the URL parser rejects or rewrites: "foo.1/embed/abc" and
\* "youtu.be.1/abc" (a host that ends in a number and is no IPv4 address),
\* "123/embed/abc" (the address 0.0.0.123), "youtu.be/a b" (a blank in the
\* path) and "www.youtube.com/watch?v=abc " (a blank at the end).
UrlFooOne == <<102, 111, 111, 46, 49, 47, 101, 109, 98, 101, 100, 47, 97, 98, 99>>
UrlYoutuBeOne == <<121, 111, 117, 116, 117, 46, 98, 101, 46, 49, 47, 97, 98, 99>>
UrlNumber == <<49, 50, 51, 47, 101, 109, 98, 101, 100, 47, 97, 98, 99>>
UrlBlankInPath == <<121, 111, 117, 116, 117, 46, 98, 101, 47, 97, 32, 98>>
UrlBlankAtEnd == <<119, 119, 119, 46, 121, 111, 117, 116, 117, 98, 101, 46, 99, 111, 109, 47, 119, 97, 116, 99, 104, 63, 118, 61, 97, 98, 99, 32>>

\* The urls, the bare ids, two strings that are no url, and the urls the
\* parser rejects or rewrites.
RawUrls ==
  { scheme \o host \o path \o query :
      scheme \in UrlSchemes, host \in UrlHosts,
      path \in UrlPaths, query \in UrlQueries }
  \cup { VideoId, ShortId, <<63, 63>>, <<110, 111, 116, 32, 97, 32, 117, 114, 108>> }
  \cup { UrlFooOne, UrlYoutuBeOne, UrlNumber, UrlBlankInPath, UrlBlankAtEnd }

\* The videoUrl of a request body: missing, a number or a string.
VideoUrlValues ==
  { [type |-> "undefined", str |-> <<>>], [type |-> "number", str |-> <<>>] }
  \cup { [type |-> "string", str |-> raw] : raw \in RawUrls \cup { <<>> } }

\* What a thread of the commentThreads API can be: with a top-level comment
\* snippet (with or without likeCount) or without one.
ThreadKinds == <<
  [snippet |-> Some([textOriginal |-> EMOTION_LEXICON.joy[1],
                     likeCount |-> Some(5)])],
  [snippet |-> Some([textOriginal |-> <<>>, likeCount |-> None])],
  [snippet |-> None] >>

ThreadPrefixes ==
  UNION { [1..len -> 1..Len(ThreadKinds)] : len \in 1..MaxThreadPrefix }

ThreadLengths == (1..MaxShort) \cup ((RouteLimit - 1)..MaxThreads)

\* The list of n threads that starts with the kinds of prefix and goes on
\* with the last of them; the id of a thread is its position.
ThreadList(prefix, n) ==
  [i \in 1..n |->
     [id      |-> i,
      snippet |-> ThreadKinds[prefix[MathMin(i, Len(prefix))]].snippet]]

ThreadLists ==
  { <<>> } \cup
  { ThreadList(prefix, n) : prefix \in ThreadPrefixes, n \in ThreadLengths }

\* A reply of the commentThreads API that is ok, with its items.
OkThreads(items) ==
  [kind |-> "ok", items |-> items, status |-> 200, json |-> TRUE,
   reason |-> None, text |-> "", message |-> ""]

\* The other replies: ok without items, not ok with a JSON body of a known
\* or another reason or without one, not ok with a body that is no JSON,
\* and a fetch that rejects.
OtherCommentReplies ==
  { OkThreads(None) }
  \cup
  { [kind |-> "notOk", items |-> None, status |-> 403, json |-> TRUE,
     reason |-> reason, text |-> "{error}", message |-> ""] :
      reason \in { Some("commentsDisabled"), Some("quotaExceeded"),
                   Some("forbidden"), Some("videoNotFound"), None } }
  \cup
  { [kind |-> "notOk", items |-> None, status |-> 502, json |-> FALSE,
     reason |-> None, text |-> "Bad Gateway", message |-> ""],
    [kind |-> "throw", items |-> None, status |-> 0, json |-> FALSE,
     reason |-> None, text |-> "", message |-> "fetch failed"] }

\* The replies of the videos API: ok with or without title and channel, not
\* ok, and a fetch that rejects.
OkMeta ==
  [kind |-> "ok", title |-> Some("title"), channel |-> Some("channel"),
   status |-> 200, text |-> "", message |-> ""]

MetaReplies ==
  { [OkMeta EXCEPT !.title = title, !.channel = channel] :
      title \in { None, Some("title") }, channel \in { None, Some("channel") } }
  \cup
  { [kind |-> "notOk", title |-> None, channel |-> None, status |-> 400,
     text |-> "Bad Request", message |-> ""],
    [kind |-> "throw", title |-> None, channel |-> None, status |-> 0,
     text |-> "", message |-> "socket closed"] }

ApiKeys == { None, Some(<<>>), Some(<<107>>) }

\* What the body of the request is: a JSON object, the JSON value null, or
\* no JSON at all.
BodyKinds == { "object", "null", "notJson" }

GoodRequest ==
  [apiKey    |-> Some(<<107>>),
   body      |-> "object",
   videoUrl  |-> [type |-> "string", str |-> <<121, 111, 117, 116, 117, 46, 98, 101>> \o <<47>> \o VideoId],
   commentRes |-> OkThreads(Some(ThreadList(<<1, 3, 2>>, 3))),
   metaRes   |-> OkMeta]

\* Requests that differ in key and videoUrl, in the threads fetched, and in
\* how the two fetches settle.
Requests ==
  { [GoodRequest EXCEPT !.apiKey = key, !.videoUrl = url] :
      key \in ApiKeys, url \in VideoUrlValues }
  \cup
  { [GoodRequest EXCEPT !.apiKey = key, !.body = body] :
      key \in ApiKeys, body \in BodyKinds }
  \cup
  { [GoodRequest EXCEPT !.commentRes = OkThreads(Some(threads))] :
      threads \in ThreadLists }
  \cup
  { [GoodRequest EXCEPT !.commentRes = commentRes, !.metaRes = metaRes] :
      commentRes \in OtherCommentReplies \cup { GoodRequest.commentRes },
      metaRes \in MetaReplies }

InitRoute ==
  /\ request \in { Some(req) : req \in Requests }
  /\ response = None
  /\ DashboardIdle
  /\ analysis = None
  /\ text = <<>> /\ scores = None /\ emotionsIn = None /\ ensured = None
  /\ ensuredTwice = None /\ HeapIdle /\ calls = 0 /\ dominant = "" /\ payload = NoPayload

\* The route answers the request.
Post ==
  /\ request.defined /\ ~response.defined
  /\ response' \in { Some(res) : res \in POST(request.val) }
  /\ UNCHANGED <<request, analysis, engineVars, dashboardVars>>

\* fetchAndAnalyze on the response, as runAnalysis calls it: the analysis
\* of the data of a response that is ok, the error message of one that is
\* not.
Receive ==
  /\ response.defined /\ ~analysis.defined /\ ~error.defined
  /\ IF response.val.status = 200
     THEN /\ payload' = response.val.body.data.val
          /\ analysis' = Some(buildAnalysis(response.val.body.data.val))
          /\ error' = error
     ELSE /\ error' = Some(fetchAndAnalyze(
                             [kind |-> "notOk", message |-> "",
                              body |-> Some(response.val.body)]).message)
          /\ UNCHANGED <<payload, analysis>>
  /\ UNCHANGED <<calls, text, heap, args, scores, emotionsIn, ensured, ensuredTwice, dominant>>
  /\ UNCHANGED <<paramUrl, videoUrl, loading, page, inflight, server, location, submits, pending, queued, effects, urgent>>
  /\ UNCHANGED routeVars

NextRoute == Post \/ Receive

SpecRoute == InitRoute /\ [][NextRoute]_vars

(***************************************************************************)
(* Part 4.  Properties.                                                    *)
(***************************************************************************)

\* The tolerance 1e-9 of the specification.
Tolerance == Dec(1, 10^9)

\* Math.abs(a - b) <= 1e-9
Within(a, b) == FGe(Tolerance, FAbs(FAdd(a, FNeg(b))))

\* The value 1 / 6 of the uniform distribution.
Sixth == FDiv(FromInt(1), FromInt(6))

\* Six finite non-negative values that add up, in the order of the
\* categories, to 1 within 1e-9.
IsDistribution(sc) ==
  /\ DOMAIN sc = EmotionKey
  /\ \A key \in EmotionKey : sc[key].k = "fin" /\ FGe(sc[key], Zero)
  /\ Within(SumValues(sc), One)

IsUniform(sc) == \A key \in EmotionKey : sc[key] = Sixth

\* The entries of the lexicon of key that occur in the lower-cased text.
MatchedEntries(t, key) ==
  { i \in 1..Len(EMOTION_LEXICON[key]) :
      Includes(toLowerCase(t), EMOTION_LEXICON[key][i]) }

\* Everything the scoring reacts to in a text.
Signals(t) ==
  [ lexicon  |-> [key \in EmotionKey |-> MatchedEntries(t, key)],
    punct    |-> TestPunctuation(toLowerCase(t)),
    laughter |-> TestLaughter(toLowerCase(t)),
    shock    |-> TestShock(toLowerCase(t)),
    crying   |-> TestCrying(toLowerCase(t)) ]

NoSignal(t) == Signals(t) = Signals(<<>>)

StrictlyDominant(sc, key) ==
  \A other \in EmotionKey \ {key} : FGt(sc[key], sc[other])

\* The text holds the i-th joy entry and nothing else the scoring reacts to:
\* its signals are those of the entry alone.
OnlyJoyMarker(t, i) == Signals(t) = Signals(EMOTION_LEXICON.joy[i])

\* The joy entries that are entries of no other lexicon.
JoyOnlyEntries ==
  { i \in 1..Len(EMOTION_LEXICON.joy) :
      \A key \in EmotionKey \ {"joy"} :
         \A j \in 1..Len(EMOTION_LEXICON[key]) :
            EMOTION_LEXICON[key][j] # EMOTION_LEXICON.joy[i] }

\* C1: for every text, scoreEmotionByKeywords returns six values, one per
\* emotion, each finite and non-negative, whose sum is 1 (within the 1e-9 of
\* the specification: the values are doubles).
C1_ScoreIsDistribution == scores.defined => IsDistribution(scores.val)

\* A scored text with a lexicon match whose six doubles do not add up to 1
\* exactly.
C1_Witness ==
  /\ scores.defined
  /\ MatchedEntries(text, "joy") # {}
  /\ ~FEq(SumValues(scores.val), One)

\* C2: scoreEmotionByKeywords returns the uniform distribution, every
\* category the double 1/6, for the empty string and for every text with no
\* lexicon entry as a substring and none of the four heuristics.
C2_NoSignalIsUniform ==
  scores.defined /\ NoSignal(text) => IsUniform(scores.val)

\* A scored non-empty text without any signal.
C2_Witness == scores.defined /\ NoSignal(text) /\ Len(text) >= 2

\* C3 as stated: for every entry of the joy lexicon, a text with exactly
\* that joy marker and no other signal scores joy strictly above each of
\* the other five categories.
C3_Original ==
  scores.defined =>
    \A i \in 1..Len(EMOTION_LEXICON.joy) :
       OnlyJoyMarker(text, i) => StrictlyDominant(scores.val, "joy")

\* C3, amended: the same for every joy entry that is in no other lexicon
\* (all but the fourth, which is a surprise entry as well).
C3_JoyOnlyMarkerDominates ==
  scores.defined =>
    \A i \in JoyOnlyEntries :
       OnlyJoyMarker(text, i) => StrictlyDominant(scores.val, "joy")

\* A scored text made of a joy-only marker and something without signal.
C3_Witness ==
  /\ scores.defined
  /\ \E i \in JoyOnlyEntries :
        OnlyJoyMarker(text, i) /\ Len(text) > Len(EMOTION_LEXICON.joy[i])

\* The comments of the payload, none when the list is absent.
InputComments == IF payload.comments.defined THEN payload.comments.val ELSE <<>>

\* C4 as stated: score completion, as buildAnalysis uses it, yields for
\* every comment, with attached scores of any numeric values or without
\* scores, six finite non-negative entries that sum to 1 (within 1e-9).
C4_Original ==
  analysis.defined =>
    \A i \in 1..Len(analysis.val.topComments) :
       IsDistribution(analysis.val.topComments[i].emotions)

\* What the specification says a key of the attached object counts as.
FilledValue(key) ==
  IF emotionsIn.defined /\ emotionsIn.val[key].k = "fin"
  THEN emotionsIn.val[key] ELSE Zero

FilledTotal ==
  FAdd(FAdd(FAdd(FAdd(FAdd(FAdd(Zero, FilledValue("joy")), FilledValue("sadness")),
       FilledValue("anger")), FilledValue("surprise")), FilledValue("disgust")),
       FilledValue("fear"))

\* C5: in score completion every missing, non-numeric or non-finite value
\* counts as 0 and every finite number as itself; the result is always
\* there, with six finite values: the uniform distribution when the six
\* add up to exactly zero, else each value divided by their sum.
C5_BadValuesCountAsZero ==
  ensured.defined =>
    /\ \A key \in EmotionKey : ensured.val[key].k = "fin"
    /\ IF FEq(FilledTotal, Zero)
       THEN IsUniform(ensured.val)
       ELSE \A key \in EmotionKey :
               ensured.val[key] = FDiv(FilledValue(key), FilledTotal)

\* A completed object with a NaN next to a finite value that is kept.
C5_Witness ==
  /\ ensured.defined /\ emotionsIn.defined
  /\ \E key \in EmotionKey : emotionsIn.val[key] = NaN
  /\ ~FEq(FilledTotal, Zero)

\* Complete non-negative scores that add up, as doubles in the order of
\* the categories, to exactly 1.
IsNormalized(em) ==
  /\ em.defined
  /\ \A key \in EmotionKey : em.val[key].k = "fin" /\ FGe(em.val[key], Zero)
  /\ FEq(SumValues(em.val), One)

\* C9 as stated: completing the result of a completion returns identical
\* values, for every input.
C9_Original ==
  ensuredTwice.defined =>
    \A key \in EmotionKey : FEq(ensuredTwice.val[key], ensured.val[key])

\* C9, amended: completing the result of a completion returns identical
\* values whenever the six values of that result add up, as doubles in the
\* order of the categories, to exactly 1; and completing a complete,
\* non-negative scores object that adds up to exactly 1 returns its values.
C9_IdempotentOnExactSum ==
  /\ ensuredTwice.defined /\ FEq(SumValues(ensured.val), One) =>
       \A key \in EmotionKey : ensuredTwice.val[key] = ensured.val[key]
  /\ ensured.defined /\ IsNormalized(emotionsIn) =>
       \A key \in EmotionKey : ensured.val[key] = emotionsIn.val[key]

\* A twice completed object whose first completion changed the values and
\* adds up to exactly 1.
C9_Witness ==
  /\ ensuredTwice.defined /\ emotionsIn.defined
  /\ FEq(SumValues(ensured.val), One)
  /\ \E key \in EmotionKey : emotionsIn.val[key] # ensured.val[key]

\* The position of a key in EMOTIONS.
Position(key) == CHOOSE i \in 1..Len(EMOTIONS) : EMOTIONS[i] = key

\* C10: getDominantEmotion returns a category whose score is the maximum
\* of the six, the first such category in the order of EMOTIONS.
C10_FirstMaximum ==
  dominant # "" =>
    /\ dominant \in EmotionKey
    /\ \A key \in EmotionKey : FGe(ensured.val[dominant], ensured.val[key])
    /\ \A key \in EmotionKey :
          Position(key) < Position(dominant) =>
             FGt(ensured.val[dominant], ensured.val[key])

\* The maximum is shared by two categories after joy, the first is returned.
C10_Witness ==
  /\ dominant = "sadness"
  /\ \E key \in EmotionKey \ {"joy", "sadness"} :
        FEq(ensured.val[key], ensured.val.sadness)

\* C6: buildAnalysis of an empty or absent comment list returns
\* totalComments = 0, no topComments and the uniform summary.
C6_EmptyIsUniform ==
  analysis.defined /\ Len(InputComments) = 0 =>
    /\ analysis.val.totalComments = 0
    /\ analysis.val.topComments = <<>>
    /\ IsUniform(analysis.val.summary)

\* The analysis of an absent comment list.
C6_Witness == analysis.defined /\ ~payload.comments.defined

\* The arithmetic mean of a category over the attached scores of the input.
RECURSIVE InputSum(_, _)
InputSum(key, n) ==
  IF n = 0 THEN Zero
  ELSE FAdd(InputSum(key, n - 1), InputComments[n].emotions.val[key])

InputMean(key) == FDiv(InputSum(key, Len(InputComments)), FromInt(Len(InputComments)))

C8_FirstThirtyInOrder ==
  analysis.defined =>
    LET n == Len(InputComments)
        top == analysis.val.topComments
    IN  /\ analysis.val.totalComments = n
        /\ Len(top) = IF n < 30 THEN n ELSE 30
        /\ \A i \in 1..Len(top) :
              /\ top[i].id = InputComments[i].id
              /\ top[i].text = InputComments[i].text

\* An analysis of more than thirty comments.
C8_Witness ==
  /\ analysis.defined
  /\ analysis.val.totalComments > 30
  /\ Len(analysis.val.topComments) = 30

(***************************************************************************)
(* The weights of scoreEmotionByKeywords before normalisation.             *)
(***************************************************************************)

\* The heuristic adjustments of a category, in hundredths, as the four tests
\* of the scoring decide them.
BonusHundredths(t, key) ==
  (IF key = "surprise" /\ TestPunctuation(toLowerCase(t)) THEN 12 ELSE 0)
  + (IF key = "joy" /\ TestLaughter(toLowerCase(t)) THEN 10 ELSE 0)
  + (IF key = "surprise" /\ TestShock(toLowerCase(t)) THEN 8 ELSE 0)
  + (IF key = "sadness" /\ TestCrying(toLowerCase(t)) THEN 10 ELSE 0)

\* 0.02 + 0.18 * (entries of the category's lexicon found in the text) + the
\* category's bonuses, in hundredths.
WeightHundredths(t, key) ==
  2 + 18 * Cardinality(MatchedEntries(t, key)) + BonusHundredths(t, key)

\* C11: before normalisation the weight of a category is 0.02 plus 0.18 times
\* the number of entries of its lexicon that occur in the lower-cased text,
\* plus its heuristic bonuses: no cap, an entry that occurs several times
\* counts once, an entry of two lexicons counts in both (the double differs
\* from the decimal by rounding only).
C11_WeightIsBaselinePlusMatches ==
  scores.defined =>
    \A raw \in { RawScores(text) } :
       \A pair \in { [weight |-> raw[key],
                      hundredths |-> WeightHundredths(text, key)] :
                       key \in EmotionKey } :
          Within(pair.weight, Dec(pair.hundredths, 100))

\* A scored text in which an entry of two lexicons occurs twice: joy and
\* surprise count it once each.
C11_Witness ==
  /\ scores.defined
  /\ text = EMOTION_LEXICON.joy[4] \o EMOTION_LEXICON.joy[4]
  /\ EMOTION_LEXICON.joy[4] = EMOTION_LEXICON.surprise[5]
  /\ WeightHundredths(text, "joy") = 20
  /\ WeightHundredths(text, "surprise") = 20

\* The text has n consecutive code units that all belong to glyphs.
HasRun(t, glyphs, n) ==
  \E i \in 1..(Len(t) - n + 1) : \A j \in 0..(n - 1) : t[i + j] \in glyphs

\* Which heuristics fire on a text, told from its runs of glyphs: two of
\* '!' and '?', two of one laughter glyph, two shock glyphs, one crying glyph.
Fired(t) ==
  [ punct    |-> HasRun(t, {33, 63}, 2),
    laughter |-> HasRun(t, {12619}, 2) \/ HasRun(t, {12622}, 2),
    shock    |-> HasRun(t, {12599}, 2),
    crying   |-> HasRun(t, {12640, 12636}, 1) ]

\* What the heuristics added to a category: its weight less the weight the
\* lexicon alone gives it.
ObservedBonus(raw, t, key) ==
  FAdd(raw[key],
       FNeg(ScanKeywords(InitialScores[key], EMOTION_LEXICON[key],
                         toLowerCase(t))))

\* C12: each of the four heuristics adds its bonus exactly when its own
\* pattern occurs in the text, whatever the other three and the lexicon do,
\* and adds it once however many runs match: surprise gets 0.12 and 0.08,
\* joy 0.10, sadness 0.10, the other categories nothing.
C12_HeuristicsIndependentOnce ==
  scores.defined =>
    LET f == Fired(toLowerCase(text))
        expected == [key \in EmotionKey |->
                       CASE key = "surprise" ->
                              (IF f.punct THEN 12 ELSE 0) + (IF f.shock THEN 8 ELSE 0)
                         [] key = "joy"     -> IF f.laughter THEN 10 ELSE 0
                         [] key = "sadness" -> IF f.crying THEN 10 ELSE 0
                         [] OTHER           -> 0]
    IN  \A raw \in { RawScores(text) } :
           \A key \in EmotionKey :
              Within(ObservedBonus(raw, text, key), Dec(expected[key], 100))

\* A scored text in which all four heuristics fire and every run occurs
\* twice.
C12_Witness ==
  /\ scores.defined
  /\ text = RunText(<<2, 2, 2, 1>>) \o RunText(<<2, 2, 2, 1>>)
  /\ Fired(text) = [punct |-> TRUE, laughter |-> TRUE, shock |-> TRUE,
                    crying |-> TRUE]

\* The text has two consecutive code units of one glyph of glyphs.
HasRepeatedRun(t, glyphs) == \E g \in glyphs : HasRun(t, {g}, 2)

\* C13 as stated: the glyph bonuses are given for repeated runs only; the
\* sadness bonus exactly when a crying glyph is repeated, the joy bonus
\* exactly when a laughter glyph is repeated, the surprise bonus of 0.08
\* exactly when the shock glyph is repeated, and a single isolated glyph
\* brings no bonus.
C13_Original ==
  scores.defined =>
    LET t == toLowerCase(text)
        surprise == ObservedBonus(RawScores(text), text, "surprise")
    IN  /\ Within(ObservedBonus(RawScores(text), text, "sadness"), CryingBonus)
             <=> HasRepeatedRun(t, {12640, 12636})
        /\ Within(ObservedBonus(RawScores(text), text, "joy"), LaughterBonus)
             <=> HasRepeatedRun(t, {12619, 12622})
        /\ (Within(surprise, ShockBonus)
              \/ Within(surprise, FAdd(PunctuationBonus, ShockBonus)))
             <=> HasRepeatedRun(t, {12599})

\* C17: the weights of scoreEmotionByKeywords never add up to zero before
\* normalisation, their sum is at least 6 x 0.02, and every category of the
\* result is strictly positive.
C17_SumNeverZero ==
  scores.defined =>
    LET total == SumValues(RawScores(text))
    IN  /\ ~FEq(total, Zero)
        /\ FGe(total, FAdd(Dec(12, 100), FNeg(Tolerance)))
        /\ \A key \in EmotionKey : FGt(scores.val[key], Zero)

\* The empty text scored: the sum of the weights is the six baselines.
C17_Witness ==
  /\ scores.defined
  /\ text = <<>>
  /\ Within(SumValues(RawScores(text)), Dec(12, 100))

(***************************************************************************)
(* The analysis as a whole.                                                *)
(***************************************************************************)

\* Texts a comment could carry instead of its own.
ProbeTexts == { <<>>, EMOTION_LEXICON.joy[1], EMOTION_LEXICON.anger[6] }

\* C14: the scores buildAnalysis gives a comment with an attached scores
\* object are those of the same comment with any other text, and the scores
\* of a comment without one are those of any other comment without one that
\* has the same text, whatever its id and its place in the list.
C14_ScoresFromOneSource ==
  analysis.defined =>
    \A pair \in { [comment |-> [InputComments[i] EXCEPT !.id = 0],
                   result  |-> analysis.val.topComments[i].emotions] :
                    i \in 1..Len(analysis.val.topComments) } :
       IF pair.comment.emotions.defined
       THEN \A t \in ProbeTexts :
               EnrichComment([pair.comment EXCEPT !.text = t]).emotions
                 = pair.result
       ELSE /\ EnrichComment([id |-> 0, text |-> pair.comment.text,
                              emotions |-> None]).emotions
                 = pair.result
            /\ \A other \in { [comment |-> [InputComments[j] EXCEPT !.id = 0],
                               result  |-> analysis.val.topComments[j].emotions] :
                                j \in 1..Len(analysis.val.topComments) } :
                  ~other.comment.emotions.defined
                    /\ other.comment.text = pair.comment.text
                  => other.result = pair.result

\* An analysis of a comment whose text holds an anger entry and whose
\* attached scores are all joy, next to a comment without scores: the first
\* comes out all joy.
C14_Witness ==
  /\ analysis.defined
  /\ Len(InputComments) = 2
  /\ InputComments[1].emotions.defined
  /\ MatchedEntries(InputComments[1].text, "anger") # {}
  /\ analysis.val.topComments[1].emotions.joy = One
  /\ ~InputComments[2].emotions.defined

\* Six finite numbers, one per category.
IsComplete(sc) ==
  DOMAIN sc = EmotionKey /\ \A key \in EmotionKey : sc[key].k = "fin"

\* C15 as stated: for every comment sequence the summary of buildAnalysis has
\* six finite non-negative values that sum to 1 (within 1e-9), every entry of
\* topComments has complete scores, and topComments has at most 30 entries.
C15_Original ==
  analysis.defined =>
    /\ IsDistribution(analysis.val.summary)
    /\ \A i \in 1..Len(analysis.val.topComments) :
          IsComplete(analysis.val.topComments[i].emotions)
    /\ Len(analysis.val.topComments) <= 30

(***************************************************************************)
(* The dashboard.                                                          *)
(***************************************************************************)

\* The page shows all there is to show: no update waits for a render and
\* no effect is due.
Quiet == effects = {} /\ ~HasUpdates

\* C19 as stated: once no request is in flight (and the page shows all
\* there is to show) the dashboard shows the outcome of the request for the
\* url parameter of the address bar: with an empty parameter no analysis,
\* otherwise an analysis or an error, and an analysis shown is that of the
\* video of the parameter; an older response never replaces or outlives a
\* newer outcome.
C19_Original ==
  (inflight = <<>> /\ Quiet) =>
    IF paramUrl = <<>>
    THEN ~analysis.defined
    ELSE /\ analysis.defined \/ error.defined
         /\ analysis.defined => analysis.val.videoTitle = TitleOf(paramUrl)

\* C20 as stated: whenever an analysis is shown (and the page shows all
\* there is to show), page lies in 0..totalPages - 1, totalPages lies in
\* 1..3, and the page of comments shown is not empty unless there are no
\* comments.
C20_Original ==
  (analysis.defined /\ Quiet) =>
    /\ 0 <= page /\ page <= totalPages(analysis) - 1
    /\ totalPages(analysis) \in 1..3
    /\ analysis.val.topComments # <<>> => highlighted(analysis, page) # <<>>

\* The threads fetched for the request, and the positions of those that
\* have a top-level comment snippet.
FetchedThreads ==
  IF request.defined /\ request.val.commentRes.items.defined
  THEN request.val.commentRes.items.val ELSE <<>>

WithSnippet ==
  { k \in 1..Len(FetchedThreads) : FetchedThreads[k].snippet.defined }

\* The like count of the k-th fetched thread, 0 when it has none.
LikesOf(k) ==
  IF FetchedThreads[k].snippet.val.likeCount.defined
  THEN FetchedThreads[k].snippet.val.likeCount.val ELSE 0

\* The comments of a successful response.
ReturnedComments == response.val.body.data.val.comments.val

\* C18: a successful response of the route carries at most 30 comments, in
\* order of non-increasing likes; each is the comment of a different fetched
\* thread that has a snippet, as many as there are such threads up to 30,
\* and no thread with a snippet that was left out has more likes than one
\* that was returned; the analysis built from the response has the same
\* number of comments, so never more than 30.
C18_RouteReturnsMostLiked ==
  (response.defined /\ response.val.status = 200) =>
    /\ Len(ReturnedComments) <= 30
    /\ \A i, j \in 1..Len(ReturnedComments) :
         i < j => ReturnedComments[i].likes >= ReturnedComments[j].likes
    /\ \A i \in 1..Len(ReturnedComments) :
         /\ ReturnedComments[i].id \in WithSnippet
         /\ ReturnedComments[i].likes = LikesOf(ReturnedComments[i].id)
         /\ ReturnedComments[i].text =
              FetchedThreads[ReturnedComments[i].id].snippet.val.textOriginal
    /\ \A i, j \in 1..Len(ReturnedComments) :
         i # j => ReturnedComments[i].id # ReturnedComments[j].id
    /\ Len(ReturnedComments) = MathMin(30, Cardinality(WithSnippet))
    /\ \A k \in WithSnippet :
         (\A i \in 1..Len(ReturnedComments) : ReturnedComments[i].id # k) =>
           \A i \in 1..Len(ReturnedComments) :
             ReturnedComments[i].likes >= LikesOf(k)
    /\ analysis.defined =>
         /\ analysis.val.totalComments = Len(ReturnedComments)
         /\ analysis.val.totalComments <= 30

\* More than 30 threads with a snippet and one without were fetched, a
\* thread that came late has more likes than an early one, and the analysis
\* of the response is built.
C18_Witness ==
  /\ response.defined /\ response.val.status = 200
  /\ Cardinality(WithSnippet) > 30
  /\ Cardinality(WithSnippet) < Len(FetchedThreads)
  /\ \E k, m \in WithSnippet : k < m /\ LikesOf(k) < LikesOf(m)
  /\ analysis.defined /\ analysis.val.totalComments = 30

\* C16: a call of scoreEmotionByKeywords, ensureSentimentScores or
\* buildAnalysis leaves every object and array that was there before it as
\* it was (EMOTIONS and its objects, EMOTION_LEXICON and its arrays, the
\* scores object, the payload, its array and the comment records with their
\* scores objects) and the text and the references of the caller, and a call
\* of a function that was called before, whatever was called in between,
\* returns what it returned before.
C16_CallsArePure ==
  [][/\ heap' = heap
     /\ args' = args /\ text' = text
     /\ scores.defined => scores' = scores
     /\ ensured.defined => ensured' = ensured
     /\ analysis.defined => analysis' = analysis]_vars

\* Every function was called, one of them at least twice, on a scores
\* object with a value that is replaced when it is completed and on a
\* payload with a comment record that carries scores and whose emotions are
\* completed to other values.
C16_Witness ==
  /\ scores.defined /\ ensured.defined /\ analysis.defined
  /\ calls >= 4
  /\ args.emotions.defined
  /\ ReadScores(heap, args.emotions.val) # ensured.val
  /\ heap[args.payload].v.comments.defined
  /\ \E i \in 1..Len(heap[heap[args.payload].v.comments.val].v) :
        /\ heap[heap[heap[args.payload].v.comments.val].v[i]].v.emotions.defined
        /\ ReadComment(heap, heap[heap[args.payload].v.comments.val].v[i])
             # analysis.val.topComments[i]

\* A run of runAnalysis settles in this step.
RunSettles == Len(inflight') < Len(inflight)

\* What buildAnalysis makes of the bodies the server has for a url.
ResultsFor(url) == { entry.result : entry \in { e \in server : e.url = url } }

\* C21: a run of runAnalysis that is in flight settles at some time, given
\* that its request does (as long as runs are in flight the oldest of them
\* settles again and again, so every run gets its turn); in the step in which
\* a run settles it sets loading to false and records one outcome: the
\* analysis built from a body of its url, with the error message left as it
\* is, or no analysis and an error message that is not empty; and what it
\* has set is rendered at some time.
C21_RunSettlesWithOneOutcome ==
  /\ \/ []<>(inflight = <<>>)
     \/ []<><<RunSettles /\ inflight' = Tail(inflight)>>_vars
  /\ []<>(~HasUpdates)
  /\ [][RunSettles =>
          /\ queued'.loading = Some(FALSE)
          /\ queued'.analysis.defined
          /\ \/ /\ queued'.analysis.val.defined
                /\ \E i \in 1..Len(inflight) :
                      /\ inflight' = RemoveAt(inflight, i)
                      /\ queued'.analysis.val.val \in ResultsFor(inflight[i])
                /\ queued'.error = queued.error
             \/ /\ ~queued'.analysis.val.defined
                /\ queued'.error.defined
                /\ queued'.error.val.defined
                /\ queued'.error.val.val # ""]_vars

\* A run has settled with a failure and the page is rendered: no run is in
\* flight, the page has an error message and no analysis.
C21_Witness ==
  /\ inflight = <<>> /\ paramUrl # <<>> /\ Quiet
  /\ ~loading /\ error.defined /\ ~analysis.defined

\* C22 as stated: loading is true in every state in which a run is in
\* flight and false in every state in which none is (the page showing all
\* there is to show).
C22_Original == Quiet => (loading <=> (inflight # <<>>))

\* C23 as stated: an error message and an analysis are never both present
\* (on the page that shows all there is to show).
C23_Original == Quiet => (error.defined => ~analysis.defined)

\* C24: a submission of a blank text (only white space; the required input
\* keeps an empty text from being submitted) starts no request and does not
\* navigate: on the home page it sets the error message and nothing else, on
\* the dashboard it leaves analysis, error, loading, page and the url
\* parameter as they are; so no request is ever in flight for a blank url and
\* the url parameter is never made of white space.
C24_BlankSubmitDoesNothing ==
  /\ [](/\ \A i \in 1..Len(inflight) : trim(inflight[i]) # <<>>
        /\ trim(paramUrl) = <<>> => paramUrl = <<>>
        /\ pending.defined => trim(pending.val) # <<>>)
  /\ [][(HomeSubmit /\ trim(videoUrl) = <<>>) =>
          /\ error' = Some(HomeBlankMessage)
          /\ UNCHANGED <<location, paramUrl, pending, inflight, videoUrl,
                         analysis, loading, page>>]_vars
  /\ [][(location = "dashboard" /\ Submit /\ trim(videoUrl) = <<>>) =>
          UNCHANGED <<location, paramUrl, pending, inflight, videoUrl,
                      analysis, error, loading, page, queued, effects>>]_vars

\* A blank text was submitted on the home page: the page shows the message
\* and is still the home page.
C24_Witness ==
  /\ location = "home"
  /\ videoUrl # <<>> /\ trim(videoUrl) = <<>>
  /\ error = Some(HomeBlankMessage)
  /\ inflight = <<>> /\ paramUrl = <<>> /\ ~pending.defined

\* The form of the dashboard is submitted in this step with a text that is
\* not blank.
SubmitsUrl ==
  /\ location = "dashboard" /\ submits' = submits + 1
  /\ trim(videoUrl) # <<>>

\* The navigation to a new url parameter is committed on the dashboard in
\* this step.
CommitsUrl ==
  /\ location = "dashboard" /\ pending.defined
  /\ paramUrl' = pending.val /\ paramUrl' # paramUrl

\* The url effect runs in this step for a url parameter that is not empty.
UrlEffectRuns ==
  /\ location = "dashboard"
  /\ "url" \in effects /\ effects' = {} /\ paramUrl # <<>>

\* C25 as stated: every submission of a text that is not blank on the
\* dashboard leads to exactly one request, for the trimmed text: when it is
\* the url parameter the run is started at once and nothing navigates, else
\* the page navigates to the trimmed text, and the url effect of the
\* navigation starts the one run and resets page to 0.
C25_Original ==
  /\ [][SubmitsUrl =>
          IF trim(videoUrl) = paramUrl
          THEN /\ inflight' = Append(inflight, trim(videoUrl))
               /\ UNCHANGED <<paramUrl, pending>>
          ELSE /\ pending' = Some(trim(videoUrl))
               /\ UNCHANGED <<paramUrl, inflight>>]_vars
  /\ [][CommitsUrl => effects' = {"url"} /\ UNCHANGED inflight]_vars
  /\ [][UrlEffectRuns =>
          /\ inflight' = Append(inflight, paramUrl)
          /\ Rendered(page', queued'.page) = 0]_vars

\* The request has no key (none, or an empty one); no videoUrl (no JSON
\* object as body, or one without videoUrl, or with one that is not a string
\* or is empty); a videoUrl without a video id.
KeyMissing == ~request.val.apiKey.defined \/ request.val.apiKey.val = <<>>

UrlMissing ==
  \/ request.val.body # "object"
  \/ request.val.videoUrl.type # "string"
  \/ request.val.videoUrl.str = <<>>

NoVideoId == ~extractVideoId(request.val.videoUrl.str).defined

\* The response is given without a request to YouTube: it is the response
\* to the same request however the two fetches would settle.
NoFetchMade ==
  \A commentRes \in OtherCommentReplies \cup { OkThreads(Some(<<>>)) } :
     \A metaRes \in MetaReplies :
        POST([request.val EXCEPT !.commentRes = commentRes,
                                 !.metaRes = metaRes]) = { response.val }

\* C26: the route validates in a fixed order and asks YouTube nothing when
\* the validation fails: without a key the status is 500 whatever the body
\* is; else without a videoUrl that is a non-empty string it is 400; else
\* without a video id in the videoUrl it is 400; each of these responses has
\* an error field.
C26_Original ==
  response.defined =>
    /\ KeyMissing => response.val.status = 500
    /\ ~KeyMissing /\ UrlMissing => response.val.status = 400
    /\ ~KeyMissing /\ ~UrlMissing /\ NoVideoId => response.val.status = 400
    /\ KeyMissing \/ UrlMissing \/ NoVideoId =>
         /\ Truthy(response.val.body.error)
         /\ NoFetchMade

\* The request passes the validation of the route.
ValidationPassed == ~KeyMissing /\ ~UrlMissing /\ ~NoVideoId

\* Both requests to YouTube succeeded: the comment threads and the video.
BothSucceeded ==
  request.val.commentRes.kind = "ok" /\ request.val.metaRes.kind = "ok"

\* C27: once the validation has passed, the route answers with videoTitle,
\* channelTitle and comments, and no error, only when both the request for
\* the comment threads and the request for the video succeeded; when either
\* fails or throws the response has status 500, an error and details, and no
\* comments, also when the other one succeeded.
C27_SuccessNeedsBothRequests ==
  (response.defined /\ ValidationPassed) =>
    /\ (response.val.status = 200 \/ response.val.body.data.defined)
         => BothSucceeded /\ ~response.val.body.error.defined
    /\ ~BothSucceeded =>
         /\ response.val.status = 500
         /\ Truthy(response.val.body.error)
         /\ response.val.body.details.defined
         /\ ~response.val.body.data.defined

\* The comment threads were fetched and the request for the video failed:
\* the response is the 500 with the details.
C27_Witness ==
  /\ response.defined /\ ValidationPassed
  /\ request.val.commentRes.kind = "ok"
  /\ request.val.commentRes.items.defined
  /\ request.val.metaRes.kind # "ok"
  /\ response.val.status = 500
  /\ response.val.body.details.defined

\* The hosts, paths and queries a video url of the requests is put together
\* from.
PartsOf(raw) ==
  { parts \in [host : UrlHosts, path : UrlPaths, query : UrlQueries] :
      \E scheme \in UrlSchemes :
         raw = scheme \o parts.host \o parts.path \o parts.query }

\* The segments of a path, and the v parameter a query was written with.
SegmentsOf(path) == FilterBoolean(Split(path, 47))

WrittenV(query) ==
  IF query = <<63>> \o StrV \o <<61>> \o ShortId THEN Some(ShortId)
  ELSE IF query = <<63, 116, 61, 49>> \o <<38>> \o StrV \o <<61>> \o VideoId
  THEN Some(VideoId)
  ELSE None

\* A run of eleven code units of [a-zA-Z0-9_-] starts at position i of raw.
RunAt(raw, i) ==
  /\ i + 10 <= Len(raw)
  /\ \A j \in i..(i + 10) : raw[j] \in IdUnits

\* The id by the precedence of the rules, for a url of these parts: the host
\* rule, the v parameter, the segment after embed, the segment after shorts,
\* the first run of eleven in the raw input.
IdByPrecedence(raw, parts) ==
  LET segments == SegmentsOf(parts.path)
  IN  IF Includes(parts.host, StrYoutuBe)
      THEN IF segments = <<>> THEN None ELSE Some(segments[1])
      ELSE IF WrittenV(parts.query).defined
      THEN WrittenV(parts.query)
      ELSE IF Len(segments) >= 2 /\ segments[1] = StrEmbed
      THEN Some(segments[2])
      ELSE IF Len(segments) >= 2 /\ segments[1] = StrShorts
      THEN Some(segments[2])
      ELSE IF \E i \in 1..Len(raw) : RunAt(raw, i)
      THEN LET first == CHOOSE i \in 1..Len(raw) :
                          RunAt(raw, i) /\ \A k \in 1..(i - 1) : ~RunAt(raw, k)
           IN  Some(SubSeq(raw, first, first + 10))
      ELSE None

\* The id by the precedence of the rules for the other inputs.  No rule but
\* the last applies to an input new URL rejects: the bare ids, the strings
\* that are no url and the hosts that end in a number without being an IPv4
\* address; only the bare id of eleven has a run of eleven.  The url of host
\* 123 has the segment abc after embed, the url of host youtu.be the first
\* segment "a%20b", as the parser encodes it, and the v parameter of the last
\* url is abc, the blank at its end stripped.
IdOfOther(raw) ==
  IF raw = VideoId THEN Some(VideoId)
  ELSE IF raw \in { UrlNumber, UrlBlankAtEnd } THEN Some(ShortId)
  ELSE IF raw = UrlBlankInPath THEN Some(<<97, 37, 50, 48, 98>>)
  ELSE None

\* The route was asked with a key and a videoUrl that is a non-empty string.
Extracted == response.defined /\ ~KeyMissing /\ ~UrlMissing

\* C28: extractVideoId resolves the id by a fixed precedence: for a host that
\* contains youtu.be the first path segment, or null without one, whatever
\* the later rules would give; else a non-empty v parameter; else the
\* segment after embed; else the segment after shorts; else the first run of
\* eleven code units of [a-zA-Z0-9_-] in the raw input; null only when no
\* rule gives an id.  The route answers 400 exactly for null.
C28_IdByPrecedence ==
  Extracted =>
    LET raw == request.val.videoUrl.str
    IN  /\ \A parts \in PartsOf(raw) :
             /\ extractVideoId(raw) = IdByPrecedence(raw, parts)
             /\ (response.val.status = 400) <=> ~IdByPrecedence(raw, parts).defined
        /\ PartsOf(raw) = {} =>
             /\ extractVideoId(raw) = IdOfOther(raw)
             /\ (response.val.status = 400) <=> ~IdOfOther(raw).defined

\* The route was asked for a url of host youtu.be without a path and with a
\* v parameter: it has no id, and the answer is the 400.
C28_Witness ==
  /\ Extracted
  /\ \E parts \in PartsOf(request.val.videoUrl.str) :
        /\ Includes(parts.host, StrYoutuBe)
        /\ SegmentsOf(parts.path) = <<>>
        /\ WrittenV(parts.query).defined
        /\ response.val.status = 400
        /\ response.val.body.error = Some(InvalidUrlMessage)

====
